---- MODULE Spec2Model ----
(***************************************************************************)
(* IPMAS poverty-index ML pipeline (datasets/scripts).                     *)
(*                                                                         *)
(* The module models, from the Python sources:                             *)
(*   - PovertyMLPipeline.create_features and prepare_train_test_split      *)
(*     (ml_pipeline.py), as operators over small pandas-like tables,       *)
(*     run by the actions of Spec;                                         *)
(*   - the artifact store (ml_features.csv, *_model.pkl,                   *)
(*     feature_names.txt) and the scripts that write and read it           *)
(*     (SpecStore);                                                        *)
(*   - DataPreprocessor's cleaning chains (SpecClean);                     *)
(*   - the relative-error statistic of the evaluation scripts (SpecEval).  *)
(*                                                                         *)
(* Column names are TLA+ strings (substring tests are computed with        *)
(* SubSeq).  A cell is a record [k, sg, n, d, s]: a rational, NaN, +inf,   *)
(* -inf or a string.  A column is [name, dtype, vals]; a table is          *)
(* [cols, index, iname]: its columns, row labels and the index's name.     *)
(***************************************************************************)
EXTENDS Integers, Sequences, FiniteSets, TLC

VARIABLES
    dhs_data,        \* create_features input: [household, individual, gps]
    faostat_data,    \* create_features input: sequence of [name, df]
    knbs_data,       \* create_features input: sequence of [name, df]
    runs,            \* results of the create_features calls made so far
    fs,              \* artifact store: the files under datasets/processed
    last,            \* artifact store: what the last script run did
    clean_in,        \* cleaner: the raw table and its source kind
    clean_out,       \* cleaner: result of the cleaning chain
    ev               \* evaluation: test targets, predictions and statistics

vars == <<dhs_data, faostat_data, knbs_data, runs, fs, last, clean_in, clean_out, ev>>

cfVars == <<dhs_data, faostat_data, knbs_data, runs>>
storeVars == <<fs, last>>
cleanVars == <<clean_in, clean_out>>
evalVars == <<ev>>

None == [none |-> TRUE]

(***************************************************************************)
(* Natural numbers of any size: little-endian digits in base Base, without *)
(* leading zeros (zero is <<>>).  They carry the exact value of float      *)
(* expressions such as x / (range + 1e-6), which do not fit TLC's integers. *)
(***************************************************************************)
Base == 100 * 100

RECURSIVE BFromInt(_)
BFromInt(n) == IF n = 0 THEN <<>> ELSE <<n % Base>> \o BFromInt(n \div Base)

RECURSIVE BToInt(_)
BToInt(a) == IF a = <<>> THEN 0 ELSE Head(a) + Base * BToInt(Tail(a))

RECURSIVE BStrip(_)
BStrip(a) ==
    IF a = <<>> THEN <<>>
    ELSE IF a[Len(a)] = 0 THEN BStrip(SubSeq(a, 1, Len(a) - 1))
    ELSE a

RECURSIVE BAddC(_, _, _)
BAddC(a, b, c) ==
    IF a = <<>> /\ b = <<>> THEN (IF c = 0 THEN <<>> ELSE <<c>>)
    ELSE LET t == (IF a = <<>> THEN 0 ELSE Head(a)) + (IF b = <<>> THEN 0 ELSE Head(b)) + c
         IN <<t % Base>> \o BAddC(IF a = <<>> THEN <<>> ELSE Tail(a),
                                  IF b = <<>> THEN <<>> ELSE Tail(b),
                                  t \div Base)

BAdd(a, b) == BAddC(a, b, 0)

\* a - b for a >= b
RECURSIVE BSubC(_, _, _)
BSubC(a, b, c) ==
    IF a = <<>> THEN <<>>
    ELSE LET t == Head(a) - (IF b = <<>> THEN 0 ELSE Head(b)) - c
         IN <<IF t < 0 THEN t + Base ELSE t>>
            \o BSubC(Tail(a), IF b = <<>> THEN <<>> ELSE Tail(b), IF t < 0 THEN 1 ELSE 0)

BSub(a, b) == BStrip(BSubC(a, b, 0))

\* -1, 0, 1 as a < b, a = b, a > b
RECURSIVE BCmp(_, _)
BCmp(a, b) ==
    IF Len(a) # Len(b) THEN (IF Len(a) < Len(b) THEN -1 ELSE 1)
    ELSE IF a = <<>> THEN 0
    ELSE IF a[Len(a)] # b[Len(b)] THEN (IF a[Len(a)] < b[Len(b)] THEN -1 ELSE 1)
    ELSE BCmp(SubSeq(a, 1, Len(a) - 1), SubSeq(b, 1, Len(b) - 1))

RECURSIVE BMulDigit(_, _, _)
BMulDigit(a, y, c) ==
    IF a = <<>> THEN (IF c = 0 THEN <<>> ELSE <<c>>)
    ELSE LET t == Head(a) * y + c
         IN <<t % Base>> \o BMulDigit(Tail(a), y, t \div Base)

\* a * Base
BShift(a) == IF a = <<>> THEN <<>> ELSE <<0>> \o a

RECURSIVE BMul(_, _)
BMul(a, b) ==
    IF a = <<>> \/ b = <<>> THEN <<>>
    ELSE BAdd(BStrip(BMulDigit(a, Head(b), 0)), BShift(BMul(a, Tail(b))))

(***************************************************************************)
(* Cells: IEEE-like values.  A number is sg * n / d with n, d naturals as  *)
(* above, reduced to lowest terms whenever both fit TLC's integers.        *)
(***************************************************************************)
RECURSIVE Gcd(_, _)
Gcd(a, b) == IF b = 0 THEN a ELSE Gcd(b, a % b)

Abs(x) == IF x < 0 THEN -x ELSE x

\* the number sg * n / d, n and d digit sequences, d nonzero
Reduced(sg, ni, di, g) ==
    [k |-> "num", sg |-> sg, n |-> BFromInt(ni \div g), d |-> BFromInt(di \div g), s |-> ""]

MkRat(sg, n, d) ==
    IF n = <<>> THEN [k |-> "num", sg |-> 0, n |-> <<>>, d |-> <<1>>, s |-> ""]
    ELSE IF Len(n) <= 2 /\ Len(d) <= 2
    THEN Reduced(sg, BToInt(n), BToInt(d), Gcd(BToInt(n), BToInt(d)))
    ELSE [k |-> "num", sg |-> sg, n |-> n, d |-> d, s |-> ""]

\* the number n / d for TLC integers n and d # 0
Rat(n, d) ==
    MkRat(IF n = 0 THEN 0 ELSE IF (n < 0) = (d < 0) THEN 1 ELSE -1,
          BFromInt(Abs(n)), BFromInt(Abs(d)))

Num(n) ==
    [k |-> "num", sg |-> IF n = 0 THEN 0 ELSE IF n > 0 THEN 1 ELSE -1,
     n |-> BFromInt(Abs(n)), d |-> <<1>>, s |-> ""]
NaN == [k |-> "nan", sg |-> 0, n |-> <<>>, d |-> <<1>>, s |-> ""]
PInf == [k |-> "inf", sg |-> 1, n |-> <<>>, d |-> <<1>>, s |-> ""]
NInf == [k |-> "inf", sg |-> -1, n |-> <<>>, d |-> <<1>>, s |-> ""]
Str(s) == [k |-> "str", sg |-> 0, n |-> <<>>, d |-> <<1>>, s |-> s]

IsNum(v) == v.k = "num"
IsNaN(v) == v.k = "nan"
IsInf(v) == v.k = "inf"
IsStr(v) == v.k = "str"
\* pandas isna(): NaN (None is read as NaN)
IsNA(v) == v.k = "nan"
IsFinite(v) == v.k = "num"

FNeg(a) == IF IsNaN(a) THEN NaN ELSE [a EXCEPT !.sg = -a.sg]

\* -1, 0, 1 as a < b, a = b, a > b for numbers a, b
NumCmp(a, b) ==
    IF a.sg # b.sg THEN (IF a.sg < b.sg THEN -1 ELSE 1)
    ELSE IF a.sg = 0 THEN 0
    ELSE a.sg * BCmp(BMul(a.n, b.d), BMul(b.n, a.d))

\* sa * x / den + sb * y / den for signs sa, sb and naturals x, y, den; c is BCmp(x, y)
AddCross(sa, sb, x, y, den, c) ==
    MkRat(IF sa = sb \/ c >= 0 THEN sa ELSE sb,
          IF sa = sb THEN BAdd(x, y) ELSE BSub(IF c >= 0 THEN x ELSE y, IF c >= 0 THEN y ELSE x),
          den)

CrossCmp(x, y, sa, sb, den) == AddCross(sa, sb, x, y, den, BCmp(x, y))

NumAdd(a, b) ==
    IF a.sg = 0 THEN b
    ELSE IF b.sg = 0 THEN a
    ELSE IF a.d = b.d THEN CrossCmp(a.n, b.n, a.sg, b.sg, a.d)
    ELSE CrossCmp(BMul(a.n, b.d), BMul(b.n, a.d), a.sg, b.sg, BMul(a.d, b.d))

FAdd(a, b) ==
    IF IsNaN(a) \/ IsNaN(b) THEN NaN
    ELSE IF IsInf(a) /\ IsInf(b) THEN (IF a.sg = b.sg THEN a ELSE NaN)
    ELSE IF IsInf(a) THEN a
    ELSE IF IsInf(b) THEN b
    ELSE NumAdd(a, b)

FSub(a, b) == FAdd(a, FNeg(b))

FMul(a, b) ==
    IF IsNaN(a) \/ IsNaN(b) THEN NaN
    ELSE IF IsInf(a) \/ IsInf(b)
         THEN (IF a.sg * b.sg = 0 THEN NaN
               ELSE IF a.sg * b.sg > 0 THEN PInf ELSE NInf)
    ELSE MkRat(a.sg * b.sg, BMul(a.n, b.n), BMul(a.d, b.d))

\* float division: x/0 is +-inf, 0/0 is NaN, no exception (numpy semantics)
FDiv(a, b) ==
    IF IsNaN(a) \/ IsNaN(b) THEN NaN
    ELSE IF IsInf(a) /\ IsInf(b) THEN NaN
    ELSE IF IsInf(a) THEN (IF b.sg >= 0 THEN a ELSE FNeg(a))
    ELSE IF IsInf(b) THEN Num(0)
    ELSE IF b.sg = 0
         THEN (IF a.sg = 0 THEN NaN ELSE IF a.sg > 0 THEN PInf ELSE NInf)
    ELSE MkRat(a.sg * b.sg, BMul(a.n, b.d), BMul(a.d, b.n))

\* a < b (every comparison with NaN is False)
FLt(a, b) ==
    IF IsNaN(a) \/ IsNaN(b) THEN FALSE
    ELSE IF IsInf(a) /\ IsInf(b) THEN a.sg < b.sg
    ELSE IF IsInf(a) THEN a.sg < 0
    ELSE IF IsInf(b) THEN b.sg > 0
    ELSE NumCmp(a, b) < 0

FLe(a, b) == ~(IsNaN(a) \/ IsNaN(b)) /\ ~FLt(b, a)
FAbs(a) == IF IsNaN(a) THEN NaN ELSE [a EXCEPT !.sg = Abs(a.sg)]

\* a == b on cells (NaN differs from everything, itself included)
CellEq(a, b) ==
    IF a.k # b.k THEN FALSE
    ELSE IF IsStr(a) THEN a.s = b.s
    ELSE IF IsNaN(a) THEN FALSE
    ELSE IF IsInf(a) THEN a.sg = b.sg
    ELSE NumCmp(a, b) = 0

(***************************************************************************)
(* Sequences.                                                              *)
(***************************************************************************)
Range(s) == {s[i] : i \in 1..Len(s)}
Take(s, m) == SubSeq(s, 1, IF Len(s) < m THEN Len(s) ELSE m)
Filter(s, Keep(_)) == SelectSeq(s, Keep)
InSeq(x, s) == \E i \in 1..Len(s) : s[i] = x

RECURSIVE Flatten(_)
Flatten(ss) == IF ss = <<>> THEN <<>> ELSE Head(ss) \o Flatten(Tail(ss))

\* insertion of v into the sorted sequence s (ascending, -inf first)
RECURSIVE InsertSorted(_, _)
InsertSorted(v, s) ==
    IF s = <<>> THEN <<v>>
    ELSE IF FLe(v, Head(s)) THEN <<v>> \o s
    ELSE <<Head(s)>> \o InsertSorted(v, Tail(s))

RECURSIVE SortVals(_)
SortVals(s) == IF s = <<>> THEN <<>> ELSE InsertSorted(Head(s), SortVals(Tail(s)))

(***************************************************************************)
(* Strings: str.lower() and the substring test `pat in s`.                 *)
(***************************************************************************)
LowerChar(c) ==
    CASE c = "A" -> "a" [] c = "B" -> "b" [] c = "C" -> "c" [] c = "D" -> "d"
      [] c = "E" -> "e" [] c = "F" -> "f" [] c = "G" -> "g" [] c = "H" -> "h"
      [] c = "I" -> "i" [] c = "J" -> "j" [] c = "K" -> "k" [] c = "L" -> "l"
      [] c = "M" -> "m" [] c = "N" -> "n" [] c = "O" -> "o" [] c = "P" -> "p"
      [] c = "Q" -> "q" [] c = "R" -> "r" [] c = "S" -> "s" [] c = "T" -> "t"
      [] c = "U" -> "u" [] c = "V" -> "v" [] c = "W" -> "w" [] c = "X" -> "x"
      [] c = "Y" -> "y" [] c = "Z" -> "z" [] OTHER -> c

RECURSIVE Lower(_)
Lower(s) ==
    IF Len(s) = 0 THEN ""
    ELSE LowerChar(SubSeq(s, 1, 1)) \o Lower(SubSeq(s, 2, Len(s)))

Contains(pat, s) ==
    \E i \in 0..(Len(s) - Len(pat)) : SubSeq(s, i + 1, i + Len(pat)) = pat

(***************************************************************************)
(* String order (Python compares code points) and decimal parsing.         *)
(***************************************************************************)
Alphabet == " 0123456789ABCDEFGHIJKLMNOPQRSTUVWXYZ_abcdefghijklmnopqrstuvwxyz"

Ord(c) ==
    IF \E i \in 1..Len(Alphabet) : SubSeq(Alphabet, i, i) = c
    THEN CHOOSE i \in 1..Len(Alphabet) : SubSeq(Alphabet, i, i) = c
    ELSE 0

RECURSIVE StrLt(_, _)
StrLt(a, b) ==
    IF Len(b) = 0 THEN FALSE
    ELSE IF Len(a) = 0 THEN TRUE
    ELSE IF SubSeq(a, 1, 1) # SubSeq(b, 1, 1)
         THEN Ord(SubSeq(a, 1, 1)) < Ord(SubSeq(b, 1, 1))
    ELSE StrLt(SubSeq(a, 2, Len(a)), SubSeq(b, 2, Len(b)))

IsDigit(c) == c \in {"0", "1", "2", "3", "4", "5", "6", "7", "8", "9"}
DigitVal(c) == Ord(c) - 2

RECURSIVE AllDigits(_)
AllDigits(s) ==
    Len(s) = 0 \/ (IsDigit(SubSeq(s, 1, 1)) /\ AllDigits(SubSeq(s, 2, Len(s))))

RECURSIVE ParseNat(_, _)
ParseNat(s, acc) ==
    IF Len(s) = 0 THEN acc
    ELSE ParseNat(SubSeq(s, 2, Len(s)), 10 * acc + DigitVal(SubSeq(s, 1, 1)))

\* pd.to_numeric(errors='coerce') on one cell: digit strings parse, other text is NaN
to_numeric(v) ==
    IF ~IsStr(v) THEN v
    ELSE IF Len(v.s) > 0 /\ AllDigits(v.s) THEN Num(ParseNat(v.s, 0))
    ELSE NaN

\* order used to sort group labels: numbers before strings, each in its own order
LabelLt(a, b) ==
    IF IsStr(a) /\ IsStr(b) THEN StrLt(a.s, b.s)
    ELSE IF IsStr(a) THEN FALSE
    ELSE IF IsStr(b) THEN TRUE
    ELSE FLt(a, b)

\* equality of labels and of dictionary keys
KeyEq(a, b) == CellEq(a, b)

(***************************************************************************)
(* Series: reductions skip NaN, as pandas does.                            *)
(***************************************************************************)
NotNA(v) == ~IsNA(v)
NonNA(vals) == SelectSeq(vals, NotNA)

RECURSIVE SumVals(_)
SumVals(vals) == IF vals = <<>> THEN Num(0) ELSE FAdd(Head(vals), SumVals(Tail(vals)))

series_sum(vals) == SumVals(NonNA(vals))
series_count(vals) == Len(NonNA(vals))

FirstOr(s, default) == IF s = <<>> THEN default ELSE s[1]
LastOr(s, default) == IF s = <<>> THEN default ELSE s[Len(s)]

series_min(vals) == FirstOr(SortVals(NonNA(vals)), NaN)

series_max(vals) == LastOr(SortVals(NonNA(vals)), NaN)

\* the mean of the values of s, NaN for none
MeanOf(s) == IF s = <<>> THEN NaN ELSE FDiv(SumVals(s), Num(Len(s)))

series_mean(vals) == MeanOf(NonNA(vals))

\* the middle value of a sorted s, the mean of the two middle ones for an even length
MiddleOf(s) ==
    IF s = <<>> THEN NaN
    ELSE IF Len(s) % 2 = 1 THEN s[(Len(s) + 1) \div 2]
    ELSE MeanOf(SubSeq(s, Len(s) \div 2, Len(s) \div 2 + 1))

series_median(vals) == MiddleOf(SortVals(NonNA(vals)))

\* distinct non-NaN values, in order of first occurrence
RECURSIVE Uniques(_, _)
Uniques(vals, acc) ==
    IF vals = <<>> THEN acc
    ELSE LET v == Head(vals)
         IN IF IsNA(v) \/ (\E i \in 1..Len(acc) : KeyEq(acc[i], v))
            THEN Uniques(Tail(vals), acc)
            ELSE Uniques(Tail(vals), Append(acc, v))

series_nunique(vals) == Len(Uniques(vals, <<>>))

fillna(vals, fill) == [i \in 1..Len(vals) |-> IF IsNA(vals[i]) THEN fill ELSE vals[i]]

\* replace([np.inf, -np.inf], np.nan)
replace_inf(vals) == [i \in 1..Len(vals) |-> IF IsInf(vals[i]) THEN NaN ELSE vals[i]]

(***************************************************************************)
(* Tables.                                                                 *)
(***************************************************************************)
NumberDtypes == {"int8", "int16", "int32", "int64", "float32", "float64"}
IsNumber(dtype) == dtype \in NumberDtypes

RangeIndex(n) == [i \in 1..n |-> Num(i - 1)]

Col(name, dtype, vals) == [name |-> name, dtype |-> dtype, vals |-> vals]
DataFrame(cols, index, iname) == [cols |-> cols, index |-> index, iname |-> iname]

NRows(df) == Len(df.index)
ColNames(df) == [i \in 1..Len(df.cols) |-> df.cols[i].name]
HasCol(df, name) == \E i \in 1..Len(df.cols) : df.cols[i].name = name
GetCol(df, name) == df.cols[CHOOSE i \in 1..Len(df.cols) : df.cols[i].name = name]

\* X[name] = vals: overwrite the column of that name, or append a new one
SetCol(df, c) ==
    IF HasCol(df, c.name)
    THEN [df EXCEPT !.cols = [i \in 1..Len(df.cols) |->
                                 IF df.cols[i].name = c.name THEN c ELSE df.cols[i]]]
    ELSE [df EXCEPT !.cols = Append(df.cols, c)]

\* X.drop(columns=names)
DropCols(df, names) ==
    LET Keep(c) == c.name \notin names
    IN [df EXCEPT !.cols = SelectSeq(df.cols, Keep)]

\* df[names]
SelectCols(df, names) ==
    [df EXCEPT !.cols = [i \in 1..Len(names) |-> GetCol(df, names[i])]]

\* df.select_dtypes(include=[np.number]).columns
NumericColumns(df) ==
    LET IsNumCol(c) == IsNumber(c.dtype)
        sel == SelectSeq(df.cols, IsNumCol)
    IN [i \in 1..Len(sel) |-> sel[i].name]

RECURSIVE InsertLabel(_, _)
InsertLabel(v, s) ==
    IF s = <<>> THEN <<v>>
    ELSE IF LabelLt(v, Head(s)) THEN <<v>> \o s
    ELSE <<Head(s)>> \o InsertLabel(v, Tail(s))

RECURSIVE SortLabels(_)
SortLabels(s) == IF s = <<>> THEN <<>> ELSE InsertLabel(Head(s), SortLabels(Tail(s)))

\* the values of vals in the rows whose key is label
GroupVals(keys, vals, label) ==
    LET rows == SelectSeq([i \in 1..Len(keys) |-> i], LAMBDA i : KeyEq(keys[i], label))
    IN [j \in 1..Len(rows) |-> vals[rows[j]]]

Aggregate(agg, vals) ==
    CASE agg = "mean" -> series_mean(vals)
      [] agg = "max" -> series_max(vals)
      [] agg = "min" -> series_min(vals)
      [] agg = "sum" -> series_sum(vals)

\* df.groupby(key)[cols].agg(aggs): one row per key value (sorted, NaN keys
\* dropped), one column per (col, agg) pair, named by Name(col, agg)
groupby_agg(df, key, cols, aggs, Name(_, _)) ==
    LET keys == GetCol(df, key).vals
        labels == SortLabels(Uniques(keys, <<>>))
        pairs == Flatten([i \in 1..Len(cols) |-> [j \in 1..Len(aggs) |-> <<cols[i], aggs[j]>>]])
        OneCol(pr) ==
            LET src == GetCol(df, pr[1])
            IN Col(Name(pr[1], pr[2]),
                   IF pr[2] = "mean" THEN "float64" ELSE src.dtype,
                   [g \in 1..Len(labels) |->
                        Aggregate(pr[2], GroupVals(keys, src.vals, labels[g]))])
    IN DataFrame([p \in 1..Len(pairs) |-> OneCol(pairs[p])], labels, key)

(***************************************************************************)
(* PovertyMLPipeline.create_features: column selection from the DHS        *)
(* household recode.                                                       *)
(***************************************************************************)
\* the exclusion list with the continuous wealth index left out
exclude_cols_without_hv271 == {"hv270", "hv271a", "poverty_index"}

exclude_cols == {"hv270", "hv271", "hv271a", "poverty_index"}

edu_patterns == <<"hv106", "hv107", "v106", "v107", "education">>
comp_patterns == <<"hv009", "hv012", "hv013", "hv014", "hv015", "household", "member">>
housing_patterns ==
    <<"hv201", "hv204", "hv213", "hv214", "hv215", "hv216", "hv218",
      "housing", "roof", "wall", "floor">>
water_patterns ==
    <<"hv201", "hv202", "hv204", "hv205", "hv225", "hv230a",
      "water", "toilet", "sanitation">>
asset_patterns ==
    <<"hv206", "hv207", "hv208", "hv210", "hv211", "hv212", "hv221", "hv243",
      "hv244", "hv245", "asset", "radio", "tv", "refrigerator", "bicycle",
      "car", "mobile">>
health_patterns == <<"hv234", "sh69a", "health", "nutrition", "iodized", "mosquito">>

AllPatterns ==
    edu_patterns \o comp_patterns \o housing_patterns \o water_patterns
    \o asset_patterns \o health_patterns

MinFeatureCols == 30
ExtraNumericCap == 50
MinAvailableCols == 20
MaxFallbackCols == 100

\* first occurrences of xs, in order
RECURSIVE Dedupe(_, _)
Dedupe(xs, acc) ==
    IF xs = <<>> THEN acc
    ELSE IF InSeq(Head(xs), acc) THEN Dedupe(Tail(xs), acc)
    ELSE Dedupe(Tail(xs), Append(acc, Head(xs)))

Rotate(xs, r) ==
    IF xs = <<>> THEN xs
    ELSE LET m == r % Len(xs)
         IN SubSeq(xs, m + 1, Len(xs)) \o SubSeq(xs, 1, m)

\* list(set(xs)): the elements of xs once each, in an order Python does not fix
\* (string hashes differ from one interpreter run to the next); ord picks it
ListOfSet(xs, ord) == Rotate(Dedupe(xs, <<>>), ord - 1)

\* numeric columns of the household table outside exclude_cols, in table order
hh_numeric_cols(hh_df) ==
    SelectSeq(NumericColumns(hh_df), LAMBDA col : col \notin exclude_cols)

\* the columns matched by the keyword groups, with repetitions, in match order
matched_feature_cols(numeric_cols) ==
    LET low == [i \in 1..Len(numeric_cols) |-> Lower(numeric_cols[i])]
        idx == [i \in 1..Len(numeric_cols) |-> i]
        Hits(pattern) ==
            LET h == SelectSeq(idx, LAMBDA i : Contains(pattern, low[i]))
            IN [j \in 1..Len(h) |-> numeric_cols[h[j]]]
    IN Flatten([p \in 1..Len(AllPatterns) |-> Hits(AllPatterns[p])])

\* feature_cols after the keyword match and the "< 30" widening
widened_feature_cols(numeric_cols) ==
    LET matched == SelectSeq(Dedupe(matched_feature_cols(numeric_cols), <<>>),
                             LAMBDA col : col \notin exclude_cols)
        remaining_numeric ==
            SelectSeq(numeric_cols,
                      LAMBDA col : ~InSeq(col, matched) /\ col \notin exclude_cols)
    IN IF Len(matched) < MinFeatureCols
       THEN matched \o Take(remaining_numeric, ExtraNumericCap)
       ELSE matched

\* feature_cols restricted to the columns of hh_df (line 327), before the final check
candidate_cols(hh_df, ord) ==
    SelectSeq(SelectSeq(ListOfSet(widened_feature_cols(hh_numeric_cols(hh_df)), ord),
                        LAMBDA col : col \notin exclude_cols),
              LAMBDA col : HasCol(hh_df, col))

\* the selection without the final check of lines 330-333
select_dhs_columns_without_fallback(hh_df, ord) == candidate_cols(hh_df, ord)

\* available_cols: the columns create_features takes from the household table
select_dhs_columns(hh_df, ord) ==
    LET numeric_cols == hh_numeric_cols(hh_df)
        feature_cols ==
            SelectSeq(ListOfSet(widened_feature_cols(numeric_cols), ord),
                      LAMBDA col : col \notin exclude_cols)
        available_cols == SelectSeq(feature_cols, LAMBDA col : HasCol(hh_df, col))
    IN IF Len(available_cols) < MinAvailableCols
       THEN Take(SelectSeq(numeric_cols,
                           LAMBDA col : col \notin exclude_cols /\ HasCol(hh_df, col)),
                 MaxFallbackCols)
       ELSE available_cols

\* whether the order of list(set(...)) reaches the result
order_matters(hh_df) ==
    Len(Dedupe(widened_feature_cols(hh_numeric_cols(hh_df)), <<>>)) >= MinAvailableCols

(***************************************************************************)
(* Unseeded numpy draws.  The generator state at the call is not fixed by  *)
(* the program; seed names one of the streams it can produce.              *)
(***************************************************************************)
\* element i of np.random.randint(lo, hi, n) on stream `stream`
randint(seed, stream, i, lo, hi) == Num(lo + ((seed * 7 + stream * 3 + i * 5) % (hi - lo)))

\* element i of np.random.uniform(0, 100, n)
random_uniform(seed, i) == Num((seed * 37 + i * 53) % 100)

\* element i of np.random.normal(50000, 20000, n)
random_normal(seed, i) == Num(50000 + 1000 * (((seed * 11 + i * 13) % 41) - 20))

IsNone(x) == x = None

\* all_features[0] when a household table is present (lines 338-348)
dhs_base_features(hh_df, ord, seed) ==
    LET available_cols == select_dhs_columns(hh_df, ord)
        n == NRows(hh_df)
    IN IF available_cols # <<>>
       THEN SelectCols(hh_df, available_cols)
       ELSE DataFrame(
              << Col("household_size", "int64", [i \in 1..n |-> randint(seed, 1, i, 1, 10)]),
                 Col("education_level", "int64", [i \in 1..n |-> randint(seed, 2, i, 0, 5)]) >>,
              RangeIndex(n), "")

\* whether the household branch draws random numbers
base_is_random(hh_df) == select_dhs_columns(hh_df, 1) = <<>>

IndKeys == <<"v001", "v002", "hhid", "household">>
MaxIndNumeric == 20
MaxCensusNumeric == 10

IndName(col, agg) == "ind_" \o col \o "_" \o agg

\* the aggregated individual recode, as a sequence of zero or one feature sets
individual_features(ind_df) ==
    LET present == SelectSeq(IndKeys, LAMBDA key : HasCol(ind_df, key))
    IN IF present = <<>> THEN <<>>
       ELSE << groupby_agg(ind_df, present[1],
                           Take(NumericColumns(ind_df), MaxIndNumeric),
                           <<"mean", "max", "min">>, IndName) >>

\* one feature set per FAOSTAT table that has Value and Area columns
faostat_features(faostat) ==
    LET One(e) ==
            LET FaoName(col, agg) == "faostat_" \o e.name \o "_" \o agg
            IN IF ~IsNone(e.df) /\ HasCol(e.df, "Value") /\ HasCol(e.df, "Area")
               THEN << groupby_agg(e.df, "Area", <<"Value">>, <<"mean", "sum", "max">>, FaoName) >>
               ELSE <<>>
    IN Flatten([i \in 1..Len(faostat) |-> One(faostat[i])])

\* one feature set per census table that has a county column and a numeric column
census_features(knbs) ==
    LET One(e) ==
            LET CensusName(col, agg) == "census_" \o e.name \o "_" \o col
                names == IF IsNone(e.df) THEN <<>> ELSE ColNames(e.df)
                county == SelectSeq(names, LAMBDA col : Contains("county", Lower(col)))
                numeric_cols == IF IsNone(e.df) THEN <<>>
                                ELSE Take(NumericColumns(e.df), MaxCensusNumeric)
            IN IF county # <<>> /\ numeric_cols # <<>>
               THEN << groupby_agg(e.df, county[1], numeric_cols, <<"mean">>, CensusName) >>
               ELSE <<>>
    IN Flatten([i \in 1..Len(knbs) |-> One(knbs[i])])

\* all_features, in the order the feature sets are appended (lines 256-416)
collect_features(dhs, faostat, knbs, ord, seed) ==
    (IF IsNone(dhs.household) THEN <<>> ELSE << dhs_base_features(dhs.household, ord, seed) >>)
    \o (IF IsNone(dhs.individual) THEN <<>> ELSE individual_features(dhs.individual))
    \o faostat_features(faostat)
    \o census_features(knbs)

(***************************************************************************)
(* create_features: combining the feature sets (lines 418-455).            *)
(***************************************************************************)
MergeKeys == <<"County", "county", "v001", "DHSCLUST", "Area">>
n_samples == 2

\* `key in feature_set.index`: membership among the index LABELS
InIndex(key, df) == \E i \in 1..Len(df.index) : IsStr(df.index[i]) /\ df.index[i].s = key

IndexDtype(df) == IF \E i \in 1..Len(df.index) : IsStr(df.index[i]) THEN "object" ELSE "int64"

\* feature_set.reset_index(): the index becomes the first column
reset_index(df) ==
    DataFrame(<< Col(IF df.iname = "" THEN "index" ELSE df.iname, IndexDtype(df), df.index) >>
              \o df.cols, RangeIndex(NRows(df)), "")

\* reset_index raises when the index name is already a column
reset_index_raises(df) == HasCol(df, IF df.iname = "" THEN "index" ELSE df.iname)

\* X.merge(right, on=key, how='left') raises on a missing key column or on
\* an object key against a numeric one
merge_raises(X, right, key) ==
    \/ ~HasCol(right, key)
    \/ ~HasCol(X, key)
    \/ (GetCol(X, key).dtype = "object") # (GetCol(right, key).dtype = "object")

\* left merge on key; columns named on both sides get the suffixes _x and _y
merge_left(X, right, key) ==
    LET lk == GetCol(X, key).vals
        rk == GetCol(right, key).vals
        \* (left row, right row or 0) pairs, left order kept, one per match
        Matches(i) ==
            LET m == SelectSeq([j \in 1..Len(rk) |-> j], LAMBDA j : KeyEq(lk[i], rk[j]))
            IN IF m = <<>> THEN << <<i, 0>> >> ELSE [q \in 1..Len(m) |-> <<i, m[q]>>]
        rows == Flatten([i \in 1..Len(lk) |-> Matches(i)])
        Clash(name) == name # key /\ HasCol(X, name) /\ HasCol(right, name)
        LeftCol(c) ==
            Col(IF Clash(c.name) THEN c.name \o "_x" ELSE c.name, c.dtype,
                [r \in 1..Len(rows) |-> c.vals[rows[r][1]]])
        RightCol(c) ==
            Col(IF Clash(c.name) THEN c.name \o "_y" ELSE c.name,
                IF c.dtype = "object" THEN "object" ELSE "float64",
                [r \in 1..Len(rows) |-> IF rows[r][2] = 0 THEN NaN ELSE c.vals[rows[r][2]]])
        rcols == SelectSeq(right.cols, LAMBDA c : c.name # key)
    IN DataFrame([i \in 1..Len(X.cols) |-> LeftCol(X.cols[i])]
                 \o [i \in 1..Len(rcols) |-> RightCol(rcols[i])],
                 RangeIndex(Len(rows)), "")

\* pd.concat([X, right], axis=1): rows are matched by index label
concat_columns(X, right) ==
    IF X.index = right.index
    THEN [X EXCEPT !.cols = X.cols \o right.cols]
    ELSE LET extra == SelectSeq(right.index,
                                LAMBDA l : \A i \in 1..Len(X.index) : ~KeyEq(X.index[i], l))
             index == X.index \o extra
             Reindex(df, c) ==
                 Col(c.name, IF c.dtype = "object" THEN "object" ELSE "float64",
                     [r \in 1..Len(index) |->
                         IF \E i \in 1..Len(df.index) : KeyEq(df.index[i], index[r])
                         THEN c.vals[CHOOSE i \in 1..Len(df.index) : KeyEq(df.index[i], index[r])]
                         ELSE NaN])
         IN DataFrame([i \in 1..Len(X.cols) |-> Reindex(X, X.cols[i])]
                      \o [i \in 1..Len(right.cols) |-> Reindex(right, right.cols[i])],
                      index, X.iname)

\* one iteration of the loop over all_features[1:]; an exception leaves X as it was
add_feature_set(X, feature_set) ==
    LET keys == SelectSeq(MergeKeys, LAMBDA key : HasCol(X, key) /\ InIndex(key, feature_set))
    IN IF keys # <<>>
       THEN IF reset_index_raises(feature_set) \/ merge_raises(X, reset_index(feature_set), keys[1])
            THEN X
            ELSE merge_left(X, reset_index(feature_set), keys[1])
       ELSE IF NRows(X) = NRows(feature_set)
            THEN concat_columns(X, [feature_set EXCEPT !.index = RangeIndex(NRows(feature_set)),
                                                       !.iname = ""])
            ELSE X

RECURSIVE merge_feature_sets(_, _)
merge_feature_sets(X, rest) ==
    IF rest = <<>> THEN X
    ELSE merge_feature_sets(add_feature_set(X, Head(rest)), Tail(rest))

\* what one iteration of the loop over all_features[1:] did with feature_set and
\* what it printed: only the except branch prints (line 443)
combine_step(X, feature_set) ==
    LET keys == SelectSeq(MergeKeys, LAMBDA key : HasCol(X, key) /\ InIndex(key, feature_set))
        raises == /\ keys # <<>>
                  /\ \/ reset_index_raises(feature_set)
                     \/ merge_raises(X, reset_index(feature_set), keys[1])
    IN [ how |-> IF keys # <<>> THEN (IF raises THEN "raised" ELSE "merged")
                 ELSE IF NRows(X) = NRows(feature_set) THEN "positional"
                 ELSE "skipped",
         key |-> IF keys # <<>> THEN keys[1] ELSE "",
         columns |-> ColNames(X),
         index_name |-> feature_set.iname,
         left_rows |-> NRows(X),
         right_rows |-> NRows(feature_set),
         rows_after |-> NRows(add_feature_set(X, feature_set)),
         left_index |-> X.index,
         index_after |-> add_feature_set(X, feature_set).index,
         printed |-> IF raises THEN << "Could not merge feature set" >> ELSE <<>> ]

RECURSIVE combine_steps(_, _)
combine_steps(X, rest) ==
    IF rest = <<>> THEN <<>>
    ELSE << combine_step(X, Head(rest)) >>
         \o combine_steps(add_feature_set(X, Head(rest)), Tail(rest))

\* the iterations of the combining loop, in order
combine_log(all_features) ==
    IF all_features = <<>> THEN <<>> ELSE combine_steps(all_features[1], Tail(all_features))

\* the table built when no source produced a feature set (lines 445-455)
synthetic_features(seed) ==
    DataFrame(
      << Col("household_size", "int64", [i \in 1..n_samples |-> randint(seed, 1, i, 1, 10)]),
         Col("education_level", "int64", [i \in 1..n_samples |-> randint(seed, 2, i, 0, 5)]),
         Col("water_access", "int64", [i \in 1..n_samples |-> randint(seed, 3, i, 0, 2)]),
         Col("sanitation", "int64", [i \in 1..n_samples |-> randint(seed, 4, i, 0, 2)]),
         Col("housing_quality", "int64", [i \in 1..n_samples |-> randint(seed, 5, i, 0, 5)]),
         Col("income_estimate", "float64", [i \in 1..n_samples |-> random_normal(seed, i)]) >>,
      RangeIndex(n_samples), "")

\* X after the combining step
combine_features(all_features, seed) ==
    IF all_features # <<>>
    THEN merge_feature_sets(all_features[1], Tail(all_features))
    ELSE synthetic_features(seed)

(***************************************************************************)
(* create_features: derived features (lines 457-486).                      *)
(***************************************************************************)
MaxRatioCols == 3
MaxTopNumeric == 5

IsIntDtype(dtype) == dtype \in {"int8", "int16", "int32", "int64"}

MapVals(vals, F(_)) == [i \in 1..Len(vals) |-> F(vals[i])]
ZipVals(a, b, F(_, _)) == [i \in 1..Len(a) |-> F(a[i], b[i])]

\* apply Step(X, item) for each item of items, in order
FoldCols(X, items, Step(_, _)) ==
    LET f[k \in 0..Len(items)] == IF k = 0 THEN X ELSE Step(f[k - 1], items[k])
    IN f[Len(items)]

\* the _per_person columns
ratio_features(X, numeric_cols) ==
    LET Step(df, col) ==
            LET col_sum == series_sum(GetCol(df, col).vals)
            IN IF col # "household_size" /\ NotNA(col_sum) /\ FLt(Num(0), col_sum)
               THEN SetCol(df, Col(col \o "_per_person", "float64",
                                   ZipVals(GetCol(df, col).vals,
                                           MapVals(GetCol(df, "household_size").vals,
                                                   LAMBDA v : FAdd(v, Num(1))),
                                           FDiv)))
               ELSE df
    IN IF HasCol(X, "household_size") /\ Len(numeric_cols) > 1
       THEN FoldCols(X, Take(numeric_cols, MaxRatioCols), Step)
       ELSE X

\* the pairwise products of the first five numeric columns
interaction_features(X, numeric_cols) ==
    LET top_numeric == Take(numeric_cols, MaxTopNumeric)
        pairs == Flatten([i \in 1..Len(top_numeric) |->
                            [j \in 1..(Len(top_numeric) - i) |->
                                <<top_numeric[i], top_numeric[i + j]>>]])
        Step(df, pr) ==
            IF pr[1] # pr[2]
            THEN SetCol(df, Col(pr[1] \o "_x_" \o pr[2],
                                IF IsIntDtype(GetCol(df, pr[1]).dtype)
                                   /\ IsIntDtype(GetCol(df, pr[2]).dtype)
                                THEN "int64" ELSE "float64",
                                ZipVals(GetCol(df, pr[1]).vals, GetCol(df, pr[2]).vals, FMul)))
            ELSE df
    IN IF Len(top_numeric) >= 2 THEN FoldCols(X, pairs, Step) ELSE X

KeyFeatureWords == <<"wealth", "education", "income">>

\* the square of the first column whose name holds the first matching word
polynomial_feature(X) ==
    LET names == ColNames(X)
        Matching(word) == SelectSeq(names, LAMBDA c : Contains(word, Lower(c)))
        hits == SelectSeq(KeyFeatureWords, LAMBDA word : Matching(word) # <<>>)
    IN IF hits = <<>> THEN X
       ELSE LET key_feature == Matching(hits[1])[1]
                src == GetCol(X, key_feature)
            IN SetCol(X, Col(key_feature \o "_squared", src.dtype,
                             MapVals(src.vals, LAMBDA v : FMul(v, v))))

derived_features(X) ==
    LET numeric_cols == NumericColumns(X)
    IN polynomial_feature(interaction_features(ratio_features(X, numeric_cols), numeric_cols))

(***************************************************************************)
(* create_features: missing values (lines 488-520).                        *)
(***************************************************************************)
\* object columns become numbers where any cell parses, and are dropped otherwise
convert_categoricals(X) ==
    LET Convert(c) == IF c.dtype = "object"
                      THEN Col(c.name, "float64", MapVals(c.vals, to_numeric))
                      ELSE c
        AllNA(c) == \A i \in 1..Len(c.vals) : IsNA(c.vals[i])
        converted == [i \in 1..Len(X.cols) |-> Convert(X.cols[i])]
        keep == SelectSeq([i \in 1..Len(X.cols) |-> i],
                          LAMBDA i : X.cols[i].dtype # "object" \/ ~AllNA(converted[i]))
    IN [X EXCEPT !.cols = [j \in 1..Len(keep) |-> converted[keep[j]]]]

\* X[numeric_cols].fillna(X[numeric_cols].median())
fill_median(X) ==
    [X EXCEPT !.cols = [i \in 1..Len(X.cols) |->
        IF IsNumber(X.cols[i].dtype)
        THEN [X.cols[i] EXCEPT !.vals = fillna(@, series_median(X.cols[i].vals))]
        ELSE X.cols[i]]]

replace_infinite(X) ==
    [X EXCEPT !.cols = [i \in 1..Len(X.cols) |->
        IF IsNumber(X.cols[i].dtype)
        THEN [X.cols[i] EXCEPT !.vals = replace_inf(@)]
        ELSE X.cols[i]]]

handle_missing(X) == fill_median(replace_infinite(fill_median(convert_categoricals(X))))

(***************************************************************************)
(* create_features: the target (lines 522-607).                            *)
(***************************************************************************)
NoCol == ""

\* first column of X whose lower-cased name holds 'hv270' (lines 526-530)
find_quintile_col(X) ==
    LET hits == SelectSeq(ColNames(X),
                          LAMBDA col : Contains("hv270", Lower(col)) /\ col # "hv271")
    IN IF hits = <<>> THEN NoCol ELSE hits[1]

\* hh_df.set_index('v001')['hv270'].to_dict() applied to one key: the LAST
\* household row with that cluster number wins, an unknown key gives NaN
quintile_lookup(hh_df, key) ==
    LET ks == GetCol(hh_df, "v001").vals
        qs == GetCol(hh_df, "hv270").vals
        rows == SelectSeq([i \in 1..Len(ks) |-> i], LAMBDA i : KeyEq(ks[i], key))
    IN IF rows = <<>> THEN NaN ELSE qs[rows[Len(rows)]]

\* dtype of a column built from Python values
InferDtype(vals) ==
    IF \E i \in 1..Len(vals) : IsStr(vals[i]) THEN "object" ELSE "float64"

\* lines 532-544: the pair <<X, wealth_quintile_col>> after looking for hv270 in
\* the household table
attach_quintile(X, dhs) ==
    IF find_quintile_col(X) # NoCol THEN <<X, find_quintile_col(X)>>
    ELSE IF IsNone(dhs.household) \/ ~HasCol(dhs.household, "hv270") THEN <<X, NoCol>>
    ELSE IF HasCol(X, "v001") /\ HasCol(dhs.household, "v001")
         THEN LET mapped == MapVals(GetCol(X, "v001").vals,
                                    LAMBDA k : quintile_lookup(dhs.household, k))
              IN <<SetCol(X, Col("hv270", InferDtype(mapped), mapped)), "hv270">>
    ELSE IF NRows(X) = NRows(dhs.household)
         THEN <<SetCol(X, [GetCol(dhs.household, "hv270") EXCEPT !.name = "hv270"]), "hv270">>
    ELSE <<X, NoCol>>

QuintileLabels == <<"poorest", "poorer", "middle", "richer", "richest">>
QuintileScores == <<90, 70, 50, 30, 10>>
DefaultScore == 50

\* Series.map({1: 90, 2: 70, 3: 50, 4: 30, 5: 10}) on one cell
map_numeric_quintile(v) ==
    IF \E q \in 1..5 : CellEq(v, Num(q))
    THEN Num(QuintileScores[CHOOSE q \in 1..5 : CellEq(v, Num(q))])
    ELSE NaN

\* Series.map(quintile_map) on one cell: the keys are the five labels
map_label_quintile(v) ==
    IF IsStr(v) /\ InSeq(v.s, QuintileLabels)
    THEN Num(QuintileScores[CHOOSE q \in 1..5 : QuintileLabels[q] = v.s])
    ELSE NaN

\* `X[col].dtype in [np.number, 'int64', 'float64']`
takes_numeric_map(dtype) == dtype \in {"int64", "float64"}

\* lines 559-566
quintile_to_poverty(c) ==
    fillna(MapVals(c.vals, LAMBDA v : IF takes_numeric_map(c.dtype)
                                      THEN map_numeric_quintile(v)
                                      ELSE map_label_quintile(v)),
           Num(DefaultScore))

\* only the column named hv271 itself
exact_leakage_cols(X) == {c \in Range(ColNames(X)) : c = "hv271"}

\* line 571
LeakageCols(X) == {c \in Range(ColNames(X)) : Contains("hv271", Lower(c))}

\* lines 546-578
authoritative_target(X, wealth_quintile_col) ==
    LET with_target == SetCol(X, Col("poverty_index", "float64",
                                     quintile_to_poverty(GetCol(X, wealth_quintile_col))))
        dropped == DropCols(with_target, {wealth_quintile_col})
    IN DropCols(dropped, LeakageCols(dropped))

Epsilon == Rat(1, 1000000)

\* (x - min) / (max - min + 1e-6)
ScaleBy(vals, lo, width) == MapVals(vals, LAMBDA v : FDiv(FSub(v, lo), width))

SpanOf(lo, hi) == FAdd(FSub(hi, lo), Epsilon)

min_max_normalize(vals) == ScaleBy(vals, series_min(vals), SpanOf(series_min(vals), series_max(vals)))

\* (1 - normalized) * 100
inverse_score(vals) ==
    MapVals(min_max_normalize(vals), LAMBDA v : FMul(FSub(Num(1), v), Num(100)))

find_wealth_col(X) ==
    LET hits == SelectSeq(ColNames(X), LAMBDA col : Contains("wealth", Lower(col))
                                                    \/ Contains("hv271", Lower(col)))
    IN IF hits = <<>> THEN NoCol ELSE hits[1]

\* 2^64, as a digit sequence
TwoTo64 == <<1616, 955, 737, 6744, 1844>>

\* weights = np.random.random(n); weights = weights / weights.sum() in float64:
\* the quotients numpy computes from the first n draws of three generator
\* states (the ones np.random.seed(0), seed(5) and seed(2) leave), quotient i
\* being WeightMantissas[state][n][i] / 2^64
WeightMantissas ==
    <<
      <<
         << <<1616, 955, 737, 6744, 1844>> >>,
         << <<8960, 3872, 8591, 9334, 800>>,
            <<1632, 7082, 2145, 7409, 1043>> >>,
         << <<4896, 7486, 8991, 3186, 542>>,
            <<4544, 5972, 1341, 7256, 706>>,
            <<9104, 7495, 403, 6301, 595>> >>,
         << <<6848, 6196, 454, 7883, 419>>,
            <<6944, 7342, 6104, 494, 547>>,
            <<5648, 6783, 4583, 546, 461>>,
            <<1664, 632, 9594, 7819, 416>> >>,
         << <<6336, 1348, 9693, 629, 357>>,
            <<6304, 1910, 2798, 3086, 465>>,
            <<4864, 6416, 6850, 1632, 392>>,
            <<2240, 8740, 9481, 5058, 354>>,
            <<336, 2539, 1913, 6336, 275>> >> >>,
      <<
         << <<1616, 955, 737, 6744, 1844>> >>,
         << <<6784, 6936, 1846, 7557, 374>>,
            <<7392, 4018, 8890, 9186, 1469>> >>,
         << <<7248, 5931, 6846, 1385, 315>>,
            <<5824, 6260, 6110, 800, 1236>>,
            <<1616, 8763, 7779, 4557, 293>> >>,
         << <<1120, 6650, 7485, 6234, 184>>,
            <<1920, 5944, 1725, 1557, 724>>,
            <<6192, 3069, 4328, 9206, 171>>,
            <<5968, 5291, 7197, 9745, 763>> >>,
         << <<1728, 7268, 7231, 3061, 151>>,
            <<8464, 2911, 8712, 4739, 593>>,
            <<9104, 8407, 406, 8957, 140>>,
            <<3840, 672, 9891, 1070, 626>>,
            <<16, 1695, 4495, 8914, 332>> >> >>,
      <<
         << <<1616, 955, 737, 6744, 1844>> >>,
         << <<6240, 154, 2944, 1384, 1741>>,
            <<5888, 800, 7793, 5359, 103>> >>,
         << <<8240, 8941, 8306, 589, 795>>,
            <<9952, 9190, 854, 2778, 47>>,
            <<5792, 2822, 1575, 3376, 1002>> >>,
         << <<1472, 4532, 195, 8541, 555>>,
            <<1936, 575, 278, 536, 33>>,
            <<9136, 3365, 8955, 7699, 700>>,
            <<1760, 2482, 1308, 9967, 554>> >>,
         << <<5344, 5138, 620, 7181, 430>>,
            <<6352, 8935, 4963, 6124, 25>>,
            <<6368, 2962, 7640, 99, 543>>,
            <<6720, 6492, 3598, 537, 430>>,
            <<9712, 7425, 3913, 2801, 415>> >> >> >>

random_weights(seed, n) ==
    [i \in 1..n |->
        MkRat(1, WeightMantissas[((seed - 1) % Len(WeightMantissas)) + 1][n][i], TwoTo64)]

\* lines 602-605: the running sum over the columns cols, weighted by weights.  The
\* weights share the denominator weights[1].d: the sum runs over their numerators
\* and the denominator is divided out once, which leaves the same number
weighted_sum(X, cols, weights) ==
    LET den == [Num(1) EXCEPT !.n = weights[1].d]
        acc[k \in 0..Len(cols)] ==
            IF k = 0 THEN [r \in 1..NRows(X) |-> Num(0)]
            ELSE ZipVals(acc[k - 1],
                         MapVals(inverse_score(GetCol(X, cols[k]).vals),
                                 LAMBDA v : FMul([weights[k] EXCEPT !.d = <<1>>], v)),
                         FAdd)
    IN MapVals(acc[Len(cols)], LAMBDA v : FDiv(v, den))

weighted_target(X, numeric_cols, seed) ==
    weighted_sum(X, Take(numeric_cols, MaxTopNumeric),
                 random_weights(seed, Len(Take(numeric_cols, MaxTopNumeric))))

\* lines 580-607
fallback_target(X, numeric_cols, seed) ==
    SetCol(X, Col("poverty_index", "float64",
        IF find_wealth_col(X) # NoCol
        THEN inverse_score(GetCol(X, find_wealth_col(X)).vals)
        ELSE IF numeric_cols # <<>> THEN weighted_target(X, numeric_cols, seed)
        ELSE [i \in 1..NRows(X) |-> random_uniform(seed, i)]))

\* which target path runs on X: "present", "authoritative" or "fallback"
target_path(X, dhs) ==
    IF HasCol(X, "poverty_index") THEN "present"
    ELSE IF attach_quintile(X, dhs)[2] # NoCol THEN "authoritative"
    ELSE "fallback"

\* lines 546-607, aq being the pair left by lines 526-544
target_from(aq, X, seed) ==
    IF aq[2] # NoCol THEN authoritative_target(aq[1], aq[2])
    ELSE fallback_target(X, NumericColumns(X), seed)

\* lines 522-607; the numeric columns are those listed at line 512
add_target(X, dhs, seed) ==
    IF HasCol(X, "poverty_index") THEN X ELSE target_from(attach_quintile(X, dhs), X, seed)

\* whether the fallback target draws random numbers
target_is_random(X, dhs) == target_path(X, dhs) = "fallback" /\ find_wealth_col(X) = NoCol

(***************************************************************************)
(* create_features: final cleanup (lines 609-624).                         *)
(***************************************************************************)
\* the constant columns, the target left aside
constant_feature_cols(X) ==
    {c \in Range(ColNames(X)) : c # "poverty_index" /\ series_nunique(GetCol(X, c).vals) <= 1}

ConstantCols(X) == {c \in Range(ColNames(X)) : series_nunique(GetCol(X, c).vals) <= 1}

\* a cleanup that leaves constant and empty columns in place
keep_constant_cols(X) == X

drop_constant_cols(X) == DropCols(X, ConstantCols(X))

keep_numeric_cols(X) == [X EXCEPT !.cols = SelectSeq(X.cols, LAMBDA c : IsNumber(c.dtype))]

final_cleanup(X) == keep_numeric_cols(drop_constant_cols(X))

\* X as it stands when the target step begins
features_before_target(dhs, faostat, knbs, ord, seed) ==
    handle_missing(derived_features(
        combine_features(collect_features(dhs, faostat, knbs, ord, seed), seed)))

\* PovertyMLPipeline.create_features
create_features(dhs, faostat, knbs, ord, seed) ==
    final_cleanup(add_target(features_before_target(dhs, faostat, knbs, ord, seed), dhs, seed))

(***************************************************************************)
(* Input tables.  create_features receives whatever the loaders return:    *)
(* read_csv yields int64, float64 and object columns, read_stata also the  *)
(* narrow integer and float types, and every source may be absent.         *)
(***************************************************************************)
IntCol(name, dtype, xs) == Col(name, dtype, [i \in 1..Len(xs) |-> Num(xs[i])])
StrCol(name, xs) == Col(name, "object", [i \in 1..Len(xs) |-> Str(xs[i])])
Table(cols) == DataFrame(cols, RangeIndex(Len(cols[1].vals)), "")

\* the ways the quintile attribute arrives in a household table
QuintileVariants ==
    { <<>>,
      << IntCol("hv270", "int64", <<1, 4>>) >>,
      << IntCol("hv270", "int8", <<1, 4>>) >>,
      << StrCol("hv270", <<"poorest", "richest">>) >>,
      << StrCol("hv270", <<"poorer", "unknown">>) >>,
      << IntCol("hv270", "int64", <<2, 2>>) >>,
      << IntCol("hv270", "int64", <<7, 9>>) >>,
      << Col("hv270", "float64", <<Num(5), NaN>>) >>,
      << Col("HV270", "float64", <<Num(2), Num(3)>>) >> }

WideNames ==
    <<"hv009", "hv012", "hv013", "hv014", "hv106", "hv107", "hv201", "hv202",
      "hv204", "hv205", "hv206", "hv207", "hv208", "hv210", "hv211", "hv212",
      "hv213", "hv214", "hv215", "hv216", "hv221">>

\* the other columns of a household table
OtherVariants ==
    { << IntCol("hv009", "int64", <<3, 5>>) >>,
      << IntCol("hv009", "int64", <<3, 5>>), IntCol("hv012", "int64", <<1, 2>>) >>,
      << IntCol("hv009", "int64", <<3, 5>>), IntCol("hv271", "int64", <<10, 20>>) >>,
      << IntCol("hv009", "int64", <<3, 5>>), IntCol("v001", "int64", <<7, 8>>) >>,
      << IntCol("hv009", "int64", <<3, 5>>), IntCol("v001", "int64", <<7, 7>>) >>,
      << StrCol("region", <<"coast", "rift">>) >>,
      << IntCol("household_size", "int64", <<2, 4>>),
         Col("wealth_idx", "float64", <<Rat(3, 2), Num(4)>>) >>,
      << Col("hv009", "float64", <<PInf, Num(3)>>),
         Col("hv010", "float64", <<NaN, NaN>>), IntCol("hv012", "int64", <<1, 2>>) >>,
      << IntCol("hv009", "int64", <<3, 5>>), IntCol("HV271", "int64", <<10, 20>>),
         IntCol("hv271a", "int64", <<1, 2>>) >>,
      [i \in 1..Len(WideNames) |-> IntCol(WideNames[i], "int64", <<i, 2 * i + 1>>)] }

\* a longer table with an infinite and a missing cell
LongHousehold ==
    Table(<< Col("hv009", "float64", <<PInf, NaN, Num(3), Num(5)>>),
             IntCol("hv012", "int64", <<1, 2, 4, 6>>),
             Col("hv270", "float64", <<Num(1), NaN, Num(5), Num(2)>>) >>)

\* a table with a numeric column named like a merge key
AreaHousehold ==
    Table(<< IntCol("hv009", "int64", <<3, 5>>), IntCol("Area", "int64", <<1, 2>>),
             IntCol("hv270", "int64", <<1, 4>>) >>)

\* two households of one cluster with different quintiles
ClusterHousehold ==
    Table(<< IntCol("hv009", "int64", <<3, 5, 4>>), IntCol("v001", "int64", <<7, 7, 8>>),
             IntCol("hv270", "int64", <<1, 4, 2>>) >>)

Households ==
    {None, LongHousehold, AreaHousehold, ClusterHousehold}
    \cup {Table(o \o q) : o \in OtherVariants, q \in QuintileVariants}

Individuals ==
    { None,
      Table(<< StrCol("hhid", <<"h1", "h2", "h1">>), IntCol("v012", "int64", <<20, 30, 50>>) >>) }

\* members listed with the cluster number of their household
ClusterIndividual ==
    Table(<< IntCol("v001", "int64", <<8, 7, 8>>), IntCol("v012", "int64", <<20, 30, 50>>) >>)

FaostatSets ==
    { <<>>,
      << [name |-> "food",
          df |-> Table(<< StrCol("Area", <<"Kenya", "Kenya", "Uganda">>),
                          IntCol("Value", "float64", <<1, 3, 5>>) >>)] >>,
      \* a header line repeated among the data rows
      << [name |-> "crops",
          df |-> Table(<< StrCol("Area", <<"Area", "Kenya">>),
                          IntCol("Value", "float64", <<2, 6>>) >>)] >> }

CensusSets ==
    { <<>>,
      << [name |-> "pop",
          df |-> Table(<< StrCol("County", <<"Nairobi", "Mombasa">>),
                          IntCol("Total ", "int64", <<100, 200>>) >>)] >> }

\* cluster coordinates as read from the GPS shapefile
GpsTables ==
    { Table(<< IntCol("DHSCLUST", "int64", <<7, 8>>), IntCol("LATNUM", "int64", <<-1, 2>>),
               IntCol("LONGNUM", "int64", <<36, 37>>), StrCol("URBAN_RURA", <<"U", "R">>) >>),
      Table(<< IntCol("DHSCLUST", "int64", <<8, 7, 9>>), IntCol("LATNUM", "int64", <<3, 1, 4>>) >>) }

\* the auxiliary sources offered together, as <<individual, faostat, census, gps>>
AuxChoices ==
    { <<None, <<>>, <<>>, None>> } \cup
    { <<i, <<>>, <<>>, None>> : i \in Individuals } \cup
    { <<None, f, k, None>> : f \in FaostatSets, k \in CensusSets }

\* the sources keyed by the cluster number
ClusterChoices ==
    { <<ClusterIndividual, <<>>, <<>>, None>> } \cup
    { <<None, <<>>, <<>>, g>> : g \in GpsTables }

NoData == [household |-> None, individual |-> None, gps |-> None]

\* the household tables that carry the cluster number, and one that does not
ClusterHouseholds ==
    {hh \in Households \ {None} : HasCol(hh, "v001")} \cup {LongHousehold}

\* what the loaders returned, as <<household table, auxiliary sources>>
LoadedInputs ==
    (Households \X AuxChoices) \cup (ClusterHouseholds \X ClusterChoices)

(***************************************************************************)
(* Calls of create_features.                                               *)
(***************************************************************************)
MaxRuns == 2
NumSeeds == 2
NumSetOrders == 2

\* whether a call on these tables consumes random numbers
draws_random(dhs, faostat, knbs) ==
    \/ (~IsNone(dhs.household) /\ base_is_random(dhs.household))
    \/ collect_features(dhs, faostat, knbs, 1, 1) = <<>>
    \/ target_is_random(features_before_target(dhs, faostat, knbs, 1, 1), dhs)

\* the set orders and random streams a call can meet; one stands for all when
\* the call never looks at them
OrderChoices(dhs) ==
    IF ~IsNone(dhs.household) /\ order_matters(dhs.household) THEN 1..NumSetOrders ELSE {1}

SeedChoices(dhs, faostat, knbs) ==
    IF draws_random(dhs, faostat, knbs) THEN 1..NumSeeds ELSE {1}

\* the GPS block (lines 350-363): it runs after all_features.append(dhs_features)
\* and binds the merged table to the local name dhs_features only
gps_cols == <<"LATNUM", "LONGNUM", "URBAN_RURA">>

available_gps(gps) == SelectSeq(gps_cols, LAMBDA col : HasCol(gps, col))

\* gps[['DHSCLUST'] + available_gps].rename(columns={'DHSCLUST': 'v001'})
gps_features(gps) ==
    LET sel == SelectCols(gps, <<"DHSCLUST">> \o available_gps(gps))
    IN [sel EXCEPT !.cols = [i \in 1..Len(sel.cols) |->
                                IF sel.cols[i].name = "DHSCLUST"
                                THEN [sel.cols[i] EXCEPT !.name = "v001"] ELSE sel.cols[i]]]

gps_merge_tried(dhs) ==
    /\ ~IsNone(dhs.household)
    /\ ~IsNone(dhs.gps)
    /\ available_gps(dhs.gps) # <<>>
    /\ HasCol(dhs.gps, "DHSCLUST")
    /\ HasCol(dhs.household, "v001")

\* what the block leaves behind: the table bound to dhs_features at line 363
\* and the lines printed
gps_block(dhs, dhs_features) ==
    IF ~gps_merge_tried(dhs)
    THEN [dhs_features |-> ColNames(dhs_features), printed |-> <<>>]
    ELSE IF merge_raises(dhs_features, gps_features(dhs.gps), "v001")
    THEN [dhs_features |-> ColNames(dhs_features), printed |-> << "Could not merge GPS data" >>]
    ELSE [dhs_features |-> ColNames(merge_left(dhs_features, gps_features(dhs.gps), "v001")),
          printed |-> << "Added GPS features" >>]

NoGps == [dhs_features |-> <<>>, printed |-> <<>>]

\* what one call returned (X), with what it did on the way
RunRecord(path, aq, built, random, combine, gps) ==
    [ X |-> final_cleanup(built),
      combine |-> combine,
      gps |-> gps,
      path |-> path,
      quintile |-> IF path = "authoritative" THEN GetCol(aq[1], aq[2]).vals ELSE <<>>,
      source |-> IF path = "authoritative" THEN aq[2] ELSE NoCol,
      target |-> IF HasCol(built, "poverty_index")
                 THEN GetCol(built, "poverty_index").vals ELSE <<>>,
      before_cleanup |-> ColNames(built),
      random |-> random ]

\* the run that continues from pre, the table standing before the target step
RunFrom(pre, dhs, seed, random_before, combine, gps) ==
    RunRecord(target_path(pre, dhs), attach_quintile(pre, dhs), add_target(pre, dhs, seed),
              random_before \/ target_is_random(pre, dhs), combine, gps)

RunOf(dhs, faostat, knbs, ord, seed) ==
    RunFrom(features_before_target(dhs, faostat, knbs, ord, seed), dhs, seed,
            (~IsNone(dhs.household) /\ base_is_random(dhs.household))
            \/ collect_features(dhs, faostat, knbs, ord, seed) = <<>>,
            combine_log(collect_features(dhs, faostat, knbs, ord, seed)),
            IF IsNone(dhs.household) THEN NoGps
            ELSE gps_block(dhs, dhs_base_features(dhs.household, ord, seed)))

\* the loaders have returned some tables; nothing has run yet
Init ==
    /\ \E loaded \in LoadedInputs :
          /\ dhs_data = [household |-> loaded[1], individual |-> loaded[2][1],
                          gps |-> loaded[2][4]]
          /\ faostat_data = loaded[2][2]
          /\ knbs_data = loaded[2][3]
    /\ runs = <<>>
    /\ fs = None
    /\ last = None
    /\ clean_in = None
    /\ clean_out = None
    /\ ev = None

\* one run of the program on the loaded tables: create_features is called
CreateFeatures ==
    /\ Len(runs) < MaxRuns
    /\ \E ord \in OrderChoices(dhs_data),
          seed \in SeedChoices(dhs_data, faostat_data, knbs_data) :
          runs' = Append(runs, RunOf(dhs_data, faostat_data, knbs_data, ord, seed))
    /\ UNCHANGED <<dhs_data, faostat_data, knbs_data, storeVars, cleanVars, evalVars>>

Next == CreateFeatures

Spec == Init /\ [][Next]_vars

(***************************************************************************)
(* Properties of create_features.                                          *)
(***************************************************************************)
LeakNames == {"hv270", "hv271", "hv271a"}


\* C1: whatever the input tables and whichever path ran, the table returned by
\* create_features has no column named 'hv270', 'hv271' or 'hv271a'.
C1_NoLeakageColumn ==
    \A i \in 1..Len(runs) : \A c \in Range(ColNames(runs[i].X)) : c \notin LeakNames

\* a run on a household table that carries hv270, hv271 and a feature column,
\* which took the authoritative path and returned a table with a target
C1_Witness ==
    /\ runs # <<>>
    /\ ~IsNone(dhs_data.household)
    /\ HasCol(dhs_data.household, "hv270")
    /\ HasCol(dhs_data.household, "hv271")
    /\ runs[1].path = "authoritative"
    /\ HasCol(runs[1].X, "poverty_index")
    /\ HasCol(runs[1].X, "hv009")

\* the score the specification assigns to a quintile value
ExpectedScore(v) ==
    IF IsNum(v) /\ \E q \in 1..5 : CellEq(v, Num(q))
    THEN Num(QuintileScores[CHOOSE q \in 1..5 : CellEq(v, Num(q))])
    ELSE IF IsStr(v) /\ InSeq(v.s, QuintileLabels)
    THEN Num(QuintileScores[CHOOSE q \in 1..5 : QuintileLabels[q] = v.s])
    ELSE Num(DefaultScore)

\* C2: on the authoritative path every row's poverty_index is 90, 70, 50, 30, 10
\* for quintile 1..5 (or poorest..richest) and 50 for any other or missing
\* value, in whatever numeric or string type the quintile column arrives.
C2_ScoreMatchesQuintile ==
    \A i \in 1..Len(runs) :
        runs[i].path = "authoritative" =>
            /\ Len(runs[i].target) = Len(runs[i].quintile)
            /\ \A r \in 1..Len(runs[i].quintile) :
                  CellEq(runs[i].target[r], ExpectedScore(runs[i].quintile[r]))

\* an authoritative run whose quintile column holds a 1 stored as a narrow integer
C2_Witness ==
    /\ runs # <<>>
    /\ runs[1].path = "authoritative"
    /\ HasCol(dhs_data.household, "hv270")
    /\ GetCol(dhs_data.household, "hv270").dtype = "int8"
    /\ \E r \in 1..Len(runs[1].quintile) : CellEq(runs[1].quintile[r], Num(1))

\* C3: for every input (household table absent or present, quintile absent or
\* present, quintile values all equal or all unmapped) the table create_features
\* returns has a poverty_index column.
C3_TargetColumnReturned ==
    \A i \in 1..Len(runs) : HasCol(runs[i].X, "poverty_index")

\* a run whose quintile values were all equal, so every row got the same score
C3_Witness ==
    /\ runs # <<>>
    /\ runs[1].path = "authoritative"
    /\ Len(runs[1].quintile) >= 2
    /\ \A r \in 1..Len(runs[1].quintile) : CellEq(runs[1].quintile[r], runs[1].quintile[1])
    /\ "poverty_index" \in Range(runs[1].before_cleanup)


SameTable(a, b) ==
    /\ Len(a.cols) = Len(b.cols)
    /\ NRows(a) = NRows(b)
    /\ \A j \in 1..Len(a.cols) :
          /\ a.cols[j].name = b.cols[j].name
          /\ \A r \in 1..Len(a.cols[j].vals) :
                \/ CellEq(a.cols[j].vals[r], b.cols[j].vals[r])
                \/ (IsNaN(a.cols[j].vals[r]) /\ IsNaN(b.cols[j].vals[r]))

\* C9: two runs on identical input tables return identical tables; no result
\* depends on unseeded randomness, on any path.
C9_RunsAgree ==
    Len(runs) >= 2 => SameTable(runs[1].X, runs[2].X)

\* two runs on the same tables, the first of which drew random numbers
C9_Witness ==
    /\ Len(runs) >= 2
    /\ runs[1].random

(***************************************************************************)
(* Text files: '\n'.join(names) and the header line of to_csv on the way   *)
(* out, readlines(), strip() and read_csv on the way in.                   *)
(***************************************************************************)
RECURSIVE Join(_, _)
Join(names, sep) ==
    IF names = <<>> THEN ""
    ELSE IF Len(names) = 1 THEN names[1]
    ELSE names[1] \o sep \o Join(Tail(names), sep)

\* position of the first sep in text, 0 when there is none
FindChar(text, sep) ==
    IF \E i \in 1..Len(text) : SubSeq(text, i, i) = sep
    THEN CHOOSE i \in 1..Len(text) :
            /\ SubSeq(text, i, i) = sep
            /\ \A j \in 1..(i - 1) : SubSeq(text, j, j) # sep
    ELSE 0

\* text.split(sep) for a one-character sep
RECURSIVE Split(_, _)
SplitAt(text, sep, i) ==
    IF i = 0 THEN <<text>>
    ELSE <<SubSeq(text, 1, i - 1)>> \o Split(SubSeq(text, i + 1, Len(text)), sep)

Split(text, sep) == SplitAt(text, sep, FindChar(text, sep))

\* f.readlines(): the lines of text, each keeping its line end
RECURSIVE readlines(_)
LinesFrom(text, i) ==
    IF i = 0 THEN <<text>>
    ELSE <<SubSeq(text, 1, i)>> \o readlines(SubSeq(text, i + 1, Len(text)))

readlines(text) == IF Len(text) = 0 THEN <<>> ELSE LinesFrom(text, FindChar(text, "\n"))

IsSpace(c) == c \in {" ", "\t", "\n", "\r"}

RECURSIVE lstrip(_)
lstrip(s) ==
    IF Len(s) > 0 /\ IsSpace(SubSeq(s, 1, 1)) THEN lstrip(SubSeq(s, 2, Len(s))) ELSE s

RECURSIVE rstrip(_)
rstrip(s) ==
    IF Len(s) > 0 /\ IsSpace(SubSeq(s, Len(s), Len(s)))
    THEN rstrip(SubSeq(s, 1, Len(s) - 1)) ELSE s

\* str.strip()
strip(s) == lstrip(rstrip(s))

\* str.replace(a, b) for one-character a
RECURSIVE Replace(_, _, _)
Replace(s, a, b) ==
    IF Len(s) = 0 THEN ""
    ELSE (IF SubSeq(s, 1, 1) = a THEN b ELSE SubSeq(s, 1, 1))
         \o Replace(SubSeq(s, 2, Len(s)), a, b)

\* the header line DataFrame.to_csv(index=False) writes (no name of the tables
\* below needs quoting)
to_csv_header(names) == Join(names, ",")

\* df.columns after pd.read_csv
read_csv_columns(text) == Split(text, ",")

(***************************************************************************)
(* The artifact store: datasets/processed/ml_features.csv and              *)
(* datasets/processed/models/{*_model.pkl, feature_names.txt}.             *)
(* A model file holds the estimator, which remembers the ordered columns   *)
(* it was fit on (feature_names_in_).                                      *)
(***************************************************************************)
NoFile == [exists |-> FALSE, text |-> ""]
File(text) == [exists |-> TRUE, text |-> text]

NoModel == [exists |-> FALSE, fit_on |-> <<>>]
\* model.fit(X_train, y_train) followed by joblib.dump
FittedModel(columns) == [exists |-> TRUE, fit_on |-> columns]

ModelNames == <<"Random Forest", "Gradient Boosting", "XGBoost", "LightGBM">>

\* f'{model_name.replace(" ", "_").lower()}_model.pkl'
model_file(model_name) == Lower(Replace(model_name, " ", "_")) \o "_model.pkl"

ModelFiles ==
    {"random_forest_model.pkl", "gradient_boosting_model.pkl",
     "xgboost_model.pkl", "lightgbm_model.pkl"}

\* an empty store in an interpreter with or without the optional libraries
EmptyStore(xgboost, lightgbm) ==
    [ csv |-> NoFile,
      models |-> [f \in ModelFiles |-> NoModel],
      names |-> NoFile,
      feature_names |-> <<>>,
      saved_by |-> "",
      XGBOOST_AVAILABLE |-> xgboost,
      LIGHTGBM_AVAILABLE |-> lightgbm ]

\* open(feature_names.txt, 'w').write('\n'.join(feature_names))
write_feature_names(store, feature_names, script) ==
    [store EXCEPT !.names = File(Join(feature_names, "\n")),
                  !.feature_names = feature_names,
                  !.saved_by = script]

\* an estimator refuses a training matrix without columns
fit_raises(columns) == columns = <<>>

\* prepare_train_test_split raises ValueError without a target column
split_raises(features_df) == ~HasCol(features_df, "poverty_index")

\* self.feature_names after prepare_train_test_split
split_feature_names(features_df) ==
    LET X == DropCols(features_df, {"poverty_index"})
        leakage_cols == {col \in Range(ColNames(X)) :
                            Contains("hv271", Lower(col)) /\ ~Contains("hv270", Lower(col))}
    IN NumericColumns(DropCols(X, leakage_cols))

\* the keys of self.models after train_models
trained_models(store) ==
    <<"Random Forest", "Gradient Boosting">>
    \o (IF store.XGBOOST_AVAILABLE THEN <<"XGBoost">> ELSE <<>>)
    \o (IF store.LIGHTGBM_AVAILABLE THEN <<"LightGBM">> ELSE <<>>)

\* PovertyMLPipeline.save_model: every trained model, then the feature names
save_model(store, models, feature_names) ==
    IF models = <<>> THEN store
    ELSE write_feature_names(
           [store EXCEPT !.models =
               [f \in ModelFiles |->
                   IF \E i \in 1..Len(models) : model_file(models[i]) = f
                   THEN FittedModel(feature_names) ELSE store.models[f]]],
           feature_names, "save_model")

\* features_df.to_csv(features_file, index=False)
features_csv(features_df) == File(to_csv_header(ColNames(features_df)))

\* an exception of the split or of a fit ends run_full_pipeline; the caller in
\* __main__ prints it
pipeline_raises(features_df) ==
    split_raises(features_df) \/ fit_raises(split_feature_names(features_df))

\* run_full_pipeline from the moment create_features has returned features_df:
\* the csv is written first; an exception of the split or of a fit ends the run
run_full_pipeline(store, features_df) ==
    IF pipeline_raises(features_df)
    THEN [store EXCEPT !.csv = features_csv(features_df)]
    ELSE save_model([store EXCEPT !.csv = features_csv(features_df)],
                    trained_models(store), split_feature_names(features_df))

\* feature_cols of the training scripts: every csv column except the target
script_feature_cols(store) ==
    SelectSeq(read_csv_columns(store.csv.text), LAMBDA c : c # "poverty_index")

\* a training script ends before it writes anything: the csv is missing, or
\* df['poverty_index'] raises KeyError
script_stops(store) ==
    \/ ~store.csv.exists
    \/ ~InSeq("poverty_index", read_csv_columns(store.csv.text))

\* `if not model_file.exists(): try: fit, dump except: print`
train_if_absent(store, file, columns, available) ==
    IF ~store.models[file].exists /\ available /\ ~fit_raises(columns)
    THEN FittedModel(columns)
    ELSE store.models[file]

\* train_missing_models.py
train_missing_models(store) ==
    IF script_stops(store) THEN store
    ELSE write_feature_names(
           [store EXCEPT !.models =
               [f \in ModelFiles |->
                   IF f \in {"random_forest_model.pkl", "gradient_boosting_model.pkl"}
                   THEN train_if_absent(store, f, script_feature_cols(store), TRUE)
                   ELSE store.models[f]]],
           script_feature_cols(store), "train_missing_models")

library_available(store, file) ==
    CASE file = "xgboost_model.pkl" -> store.XGBOOST_AVAILABLE
      [] file = "lightgbm_model.pkl" -> store.LIGHTGBM_AVAILABLE
      [] OTHER -> TRUE

\* train_all_models_fast.py: exits before writing when the four files exist
train_all_models_fast(store) ==
    IF script_stops(store) THEN store
    ELSE IF \A f \in ModelFiles : store.models[f].exists THEN store
    ELSE write_feature_names(
           [store EXCEPT !.models =
               [f \in ModelFiles |->
                   train_if_absent(store, f, script_feature_cols(store),
                                   library_available(store, f))]],
           script_feature_cols(store), "train_all_models_fast")

\* train_rf_gb.py: both models are fit again, outside any try
train_rf_gb(store) ==
    IF script_stops(store) \/ fit_raises(script_feature_cols(store)) THEN store
    ELSE write_feature_names(
           [store EXCEPT !.models =
               [f \in ModelFiles |->
                   IF f \in {"random_forest_model.pkl", "gradient_boosting_model.pkl"}
                   THEN FittedModel(script_feature_cols(store))
                   ELSE store.models[f]]],
           script_feature_cols(store), "train_rf_gb")

\* [line.strip() for line in f.readlines()]
stripped_lines(text) == MapVals(readlines(text), strip)

\* [line.strip() for line in f.readlines() if line.strip()]
nonempty_stripped_lines(text) == SelectSeq(stripped_lines(text), LAMBDA line : line # "")

\* [household_data.get(f, 0) for f in features]
feature_values_default_one(household_data, features) ==
    [i \in 1..Len(features) |->
        IF features[i] \in DOMAIN household_data THEN household_data[features[i]] ELSE 1]

feature_values(household_data, features) ==
    [i \in 1..Len(features) |->
        IF features[i] \in DOMAIN household_data THEN household_data[features[i]] ELSE 0]

EmptyDict == [k \in {} |-> 0]

\* what a script run did: whether it went through, the feature names it read,
\* the mapping it was given and the row it handed to the model
Outcome(op, ok, features, household_data, row) ==
    [op |-> op, ok |-> ok, features |-> features,
     household_data |-> household_data, row |-> row]

Ran(op) == Outcome(op, TRUE, <<>>, EmptyDict, <<>>)

\* ml_predict.load_model_and_features: any failure ends the process
load_model_and_features(store) ==
    IF store.models["random_forest_model.pkl"].exists /\ store.names.exists
    THEN Outcome("load_model_and_features", TRUE, stripped_lines(store.names.text),
                 EmptyDict, <<>>)
    ELSE Outcome("load_model_and_features", FALSE, <<>>, EmptyDict, <<>>)

\* deploy_model.load_feature_names: None when the file cannot be read
load_feature_names(store) ==
    IF store.names.exists
    THEN Outcome("load_feature_names", TRUE, stripped_lines(store.names.text), EmptyDict, <<>>)
    ELSE Outcome("load_feature_names", FALSE, <<>>, EmptyDict, <<>>)

\* evaluate_model_accuracy.load_model_and_evaluate, up to the reading of the csv
load_model_and_evaluate(store) ==
    IF store.models["random_forest_model.pkl"].exists /\ store.names.exists
    THEN Outcome("load_model_and_evaluate", store.csv.exists,
                 nonempty_stripped_lines(store.names.text), EmptyDict, <<>>)
    ELSE Outcome("load_model_and_evaluate", FALSE, <<>>, EmptyDict, <<>>)

\* the row a predictor builds from the names a loader returned
row_from(op, loaded, household_data) ==
    IF loaded.ok
    THEN Outcome(op, TRUE, loaded.features, household_data,
                 feature_values(household_data, loaded.features))
    ELSE Outcome(op, FALSE, <<>>, household_data, <<>>)

\* ml_predict.main: load_model_and_features, then predict
predict(store, household_data) ==
    row_from("predict", load_model_and_features(store), household_data)

\* deploy_model.predict_poverty: load_model, load_feature_names, then the row
predict_poverty(store, new_data_dict) ==
    IF store.models["random_forest_model.pkl"].exists
    THEN row_from("predict_poverty", load_feature_names(store), new_data_dict)
    ELSE Outcome("predict_poverty", FALSE, <<>>, new_data_dict, <<>>)

(***************************************************************************)
(* Runs of the scripts over the artifact store.                            *)
(***************************************************************************)
\* the raw data a pipeline run may find, as [dhs, faostat, knbs]
StoreInputs ==
    { [dhs |-> NoData, faostat |-> <<>>, knbs |-> <<>>] } \cup
    { [dhs |-> [household |-> Table(o \o q), individual |-> None, gps |-> None],
       faostat |-> <<>>, knbs |-> k] :
        o \in { << IntCol("hv009", "int64", <<3, 5>>) >>,
                << IntCol("hv009", "int64", <<3, 5>>), IntCol("HV271", "int64", <<10, 20>>),
                   IntCol("hv271a", "int64", <<1, 2>>) >> },
        q \in { <<>>, << IntCol("hv270", "int64", <<1, 4>>) >>,
                << IntCol("hv270", "int64", <<2, 2>>) >> },
        k \in CensusSets }

\* the mappings handed to the predictors
HouseholdData ==
    { EmptyDict,
      "hv009" :> 4,
      "hv009" :> 4 @@ "other" :> 9,
      "census_pop_Total " :> 7 @@ "hv009" :> 2 }

\* the tables create_features can return on these inputs: one per input, set
\* order and random stream
FeatureTables ==
    UNION { { create_features(input.dhs, input.faostat, input.knbs, ord, seed) :
                ord \in OrderChoices(input.dhs),
                seed \in SeedChoices(input.dhs, input.faostat, input.knbs) } :
            input \in StoreInputs }

\* the store is empty, or holds a features csv without models; the optional
\* libraries are installed or not
InitStore ==
    /\ dhs_data = None
    /\ faostat_data = None
    /\ knbs_data = None
    /\ runs = None
    /\ \E xgboost \in BOOLEAN, lightgbm \in BOOLEAN :
          \/ fs = EmptyStore(xgboost, lightgbm)
          \/ \E features_df \in FeatureTables :
                fs = [EmptyStore(xgboost, lightgbm) EXCEPT !.csv = features_csv(features_df)]
    /\ last = Ran("")
    /\ clean_in = None
    /\ clean_out = None
    /\ ev = None

\* python ml_pipeline.py: the loaders find some data, create_features returns
\* features_df and the rest of run_full_pipeline follows
RunFullPipeline ==
    /\ \E features_df \in FeatureTables :
          /\ fs' = run_full_pipeline(fs, features_df)
          /\ last' = Outcome("run_full_pipeline", ~pipeline_raises(features_df),
                              <<>>, EmptyDict, <<>>)
    /\ UNCHANGED <<cfVars, cleanVars, evalVars>>

TrainMissingModels ==
    /\ fs' = train_missing_models(fs)
    /\ last' = Ran("train_missing_models")
    /\ UNCHANGED <<cfVars, cleanVars, evalVars>>

TrainAllModelsFast ==
    /\ fs' = train_all_models_fast(fs)
    /\ last' = Ran("train_all_models_fast")
    /\ UNCHANGED <<cfVars, cleanVars, evalVars>>

TrainRfGb ==
    /\ fs' = train_rf_gb(fs)
    /\ last' = Ran("train_rf_gb")
    /\ UNCHANGED <<cfVars, cleanVars, evalVars>>

LoadModelAndFeatures ==
    /\ last' = load_model_and_features(fs)
    /\ UNCHANGED <<fs, cfVars, cleanVars, evalVars>>

LoadFeatureNames ==
    /\ last' = load_feature_names(fs)
    /\ UNCHANGED <<fs, cfVars, cleanVars, evalVars>>

LoadModelAndEvaluate ==
    /\ last' = load_model_and_evaluate(fs)
    /\ UNCHANGED <<fs, cfVars, cleanVars, evalVars>>

Predict ==
    /\ \E household_data \in HouseholdData : last' = predict(fs, household_data)
    /\ UNCHANGED <<fs, cfVars, cleanVars, evalVars>>

PredictPoverty ==
    /\ \E new_data_dict \in HouseholdData : last' = predict_poverty(fs, new_data_dict)
    /\ UNCHANGED <<fs, cfVars, cleanVars, evalVars>>

NextStore ==
    \/ RunFullPipeline
    \/ TrainMissingModels
    \/ TrainAllModelsFast
    \/ TrainRfGb
    \/ LoadModelAndFeatures
    \/ LoadFeatureNames
    \/ LoadModelAndEvaluate
    \/ Predict
    \/ PredictPoverty

SpecStore == InitStore /\ [][NextStore]_vars

(***************************************************************************)
(* Properties of the artifact store.                                       *)
(***************************************************************************)
\* the names feature_names.txt lists, one per line
listed_names(file) == IF Len(file.text) = 0 THEN <<>> ELSE Split(file.text, "\n")

\* C4: after any sequence of runs of run_full_pipeline, train_missing_models,
\* train_all_models_fast and train_rf_gb, feature_names.txt lists, for every
\* model file on disk, exactly the ordered columns that model was fit on.
C4_NamesMatchEveryModel ==
    \A f \in ModelFiles :
        fs.models[f].exists => /\ fs.names.exists
                               /\ listed_names(fs.names) = fs.models[f].fit_on

\* the pipeline trained and saved its models, then train_missing_models ran on
\* the csv the pipeline left, skipped the models it found and wrote the names
C4_Witness ==
    /\ fs.saved_by = "train_missing_models"
    /\ last.op = "train_missing_models"
    /\ fs.models["random_forest_model.pkl"].exists
    /\ fs.models["random_forest_model.pkl"].fit_on # script_feature_cols(fs)

LoaderOps == {"load_model_and_features", "load_feature_names", "load_model_and_evaluate"}

\* C7: a feature-name list written by save_model and read back by
\* load_model_and_features, load_feature_names or load_model_and_evaluate is the
\* same list: same length, same names, same order.
C7_NamesRoundTrip ==
    (last.op \in LoaderOps /\ last.ok /\ fs.saved_by = "save_model")
        => last.features = fs.feature_names

\* a loader has read a file save_model wrote from a list holding a name that
\* ends in a blank
C7_Witness ==
    /\ last.op \in LoaderOps
    /\ last.ok
    /\ fs.saved_by = "save_model"
    /\ \E i \in 1..Len(fs.feature_names) : strip(fs.feature_names[i]) # fs.feature_names[i]

PredictOps == {"predict", "predict_poverty"}

SelectRows(df, rows) ==
    [df EXCEPT !.cols = [j \in 1..Len(df.cols) |->
                            [df.cols[j] EXCEPT !.vals = [r \in 1..Len(rows) |-> @[rows[r]]]]],
               !.index = [r \in 1..Len(rows) |-> df.index[rows[r]]]]

RowPositions(df) == [i \in 1..NRows(df) |-> i]

\* a column that received NaN cannot stay an integer column
WithNaN(c) ==
    IF IsIntDtype(c.dtype) /\ \E i \in 1..Len(c.vals) : IsNA(c.vals[i])
    THEN [c EXCEPT !.dtype = "float64"] ELSE c

SentinelCodes == {996, 997, 998, 999}
HighValueLimit == 10000
missing_threshold == Rat(8, 10)

\* Series.replace(codes, np.nan)
replace_codes(vals, codes) ==
    MapVals(vals, LAMBDA v : IF \E c \in codes : CellEq(v, Num(c)) THEN NaN ELSE v)

\* `if col.max() > 10000: col.replace([col.max()], np.nan)`
replace_high_max(vals, top) ==
    IF FLt(Num(HighValueLimit), top)
    THEN MapVals(vals, LAMBDA v : IF CellEq(v, top) THEN NaN ELSE v)
    ELSE vals

\* lines 33-37 on one numeric column
replace_missing_codes(c) ==
    WithNaN([c EXCEPT !.vals = replace_high_max(replace_codes(c.vals, SentinelCodes),
                                                series_max(replace_codes(c.vals, SentinelCodes)))])

\* isna().sum() / len(df) > missing_threshold
mostly_missing(vals) ==
    FLt(missing_threshold, FDiv(Num(Len(vals) - series_count(vals)), Num(Len(vals))))

\* two rows are duplicates when their cells agree, missing cells included
SameRow(df, a, b) ==
    \A j \in 1..Len(df.cols) :
        \/ CellEq(df.cols[j].vals[a], df.cols[j].vals[b])
        \/ (IsNaN(df.cols[j].vals[a]) /\ IsNaN(df.cols[j].vals[b]))

\* df.drop_duplicates(): the first of each group of equal rows
drop_duplicates(df) ==
    SelectRows(df, SelectSeq(RowPositions(df),
                             LAMBDA r : \A q \in 1..(r - 1) : ~SameRow(df, q, r)))

\* DataPreprocessor.clean_dhs_data
clean_dhs_data(df) ==
    LET coded == [df EXCEPT !.cols = [j \in 1..Len(df.cols) |->
                     IF IsNumber(df.cols[j].dtype) THEN replace_missing_codes(df.cols[j])
                     ELSE df.cols[j]]]
        cols_to_drop == {c \in Range(ColNames(coded)) : mostly_missing(GetCol(coded, c).vals)}
    IN drop_duplicates(replace_infinite(DropCols(coded, cols_to_drop)))

\* a + (b - a) * frac
Lerp(a, b, frac) == FAdd(a, FMul(FSub(b, a), frac))

\* the num/den quantile of the sorted values s (linear interpolation)
quantile_sorted(s, num, den) ==
    IF s = <<>> THEN NaN
    ELSE Lerp(s[((Len(s) - 1) * num) \div den + 1],
              s[IF ((Len(s) - 1) * num) \div den + 2 > Len(s)
                THEN Len(s) ELSE ((Len(s) - 1) * num) \div den + 2],
              Rat(((Len(s) - 1) * num) % den, den))

\* Series.quantile(num / den)
quantile(vals, num, den) == quantile_sorted(SortVals(NonNA(vals)), num, den)

\* Series.clip(lower, upper): a missing bound clips nothing
clip(vals, lower, upper) ==
    MapVals(vals, LAMBDA v : IF FLt(v, lower) THEN lower
                             ELSE IF FLt(upper, v) THEN upper ELSE v)

\* clip to [Q1 - 1.5 * IQR, Q3 + 1.5 * IQR]
clip_iqr(vals, Q1, Q3) ==
    clip(vals, FSub(Q1, FMul(Rat(3, 2), FSub(Q3, Q1))),
               FAdd(Q3, FMul(Rat(3, 2), FSub(Q3, Q1))))

\* DataPreprocessor.handle_outliers(df, method='iqr')
handle_outliers(df) ==
    [df EXCEPT !.cols = [j \in 1..Len(df.cols) |->
        IF IsNumber(df.cols[j].dtype)
        THEN [df.cols[j] EXCEPT !.vals = clip_iqr(@, quantile(df.cols[j].vals, 1, 4),
                                                     quantile(df.cols[j].vals, 3, 4))]
        ELSE df.cols[j]]]

\* df[categorical_cols].fillna('Unknown')
fill_unknown(df) ==
    [df EXCEPT !.cols = [j \in 1..Len(df.cols) |->
        IF df.cols[j].dtype = "object"
        THEN [df.cols[j] EXCEPT !.vals = fillna(@, Str("Unknown"))]
        ELSE df.cols[j]]]

\* DataPreprocessor.impute_missing_values(df, strategy='median')
impute_missing_values(df) == fill_unknown(fill_median(df))

\* pd.to_numeric(column, errors='coerce')
numeric_column(c) == Col(c.name, IF IsNumber(c.dtype) THEN c.dtype ELSE "float64",
                         MapVals(c.vals, to_numeric))

essential_cols == <<"Area", "Year", "Value", "Unit", "Item", "Element">>

\* `.str` on a column that is not text raises AttributeError
faostat_raises(df) == HasCol(df, "Area") /\ GetCol(df, "Area").dtype # "object"

\* the rows whose Area holds 'Kenya' (any case), all rows when there is none
kenya_rows(df) ==
    LET hits == SelectSeq(RowPositions(df),
                          LAMBDA r : IsStr(GetCol(df, "Area").vals[r])
                                     /\ Contains("kenya", Lower(GetCol(df, "Area").vals[r].s)))
    IN IF hits = <<>> THEN df ELSE SelectRows(df, hits)

\* DataPreprocessor.clean_faostat_data
clean_faostat_data(df) ==
    LET available_cols == SelectSeq(essential_cols, LAMBDA col : HasCol(df, col))
        ordered == IF available_cols # <<>> /\ HasCol(df, "Year")
                   THEN SelectCols(df, available_cols
                                       \o SelectSeq(ColNames(df),
                                                    LAMBDA col : ~InSeq(col, available_cols)))
                   ELSE df
        kenya == IF HasCol(ordered, "Area") THEN kenya_rows(ordered) ELSE ordered
    IN IF HasCol(kenya, "Value")
       THEN SetCol(kenya, numeric_column(GetCol(kenya, "Value")))
       ELSE kenya

\* df.dropna(how='all')
dropna_all(df) ==
    SelectRows(df, SelectSeq(RowPositions(df),
                             LAMBDA r : \E j \in 1..Len(df.cols) : ~IsNA(df.cols[j].vals[r])))

\* df.columns.str.strip().str.replace('\n', ' ')
clean_column_names(df) ==
    [df EXCEPT !.cols = [j \in 1..Len(df.cols) |->
        Col(Replace(strip(df.cols[j].name), "\n", " "), df.cols[j].dtype, df.cols[j].vals)]]

\* `word in ' '.join(row.astype(str)).lower()`: no word holds a blank, so the
\* word lies within one cell
RowHas(df, r, word) ==
    \E j \in 1..Len(df.cols) :
        IsStr(df.cols[j].vals[r]) /\ Contains(word, Lower(df.cols[j].vals[r].s))

\* the positions of the rows that look like a header line
header_rows(df) ==
    SelectSeq(RowPositions(df),
              LAMBDA r : RowHas(df, r, "county")
                         /\ (RowHas(df, r, "name") \/ RowHas(df, r, "code")))

\* header_idx: the index LABEL of the first such row, -1 for None
header_idx(df) ==
    IF header_rows(df) = <<>> THEN -1
    ELSE df.index[header_rows(df)[1]].sg * BToInt(df.index[header_rows(df)[1]].n)

\* the name a header cell gives its column (a cell of a header line is text
\* or missing)
header_label(v) == IF IsStr(v) THEN v.s ELSE "nan"

\* df.iloc[idx + 1:] with the cells of df.iloc[idx] as column names; idx is
\* used as a POSITION
promote_header(df, idx) ==
    DataFrame([j \in 1..Len(df.cols) |->
                  Col(header_label(df.cols[j].vals[idx + 1]), df.cols[j].dtype,
                      SubSeq(df.cols[j].vals, idx + 2, NRows(df)))],
              RangeIndex(NRows(df) - idx - 1), "")

\* df.iloc[idx] raises IndexError past the last row
promote_raises(df, idx) == idx >= NRows(df)

\* `df[col].dtype` raises AttributeError when two columns share the name col
duplicate_names(df) ==
    \E i \in 1..Len(df.cols), j \in 1..Len(df.cols) : i # j /\ df.cols[i].name = df.cols[j].name

\* astype(str).str.replace(',', '') followed by pd.to_numeric(errors='coerce')
comma_numeric_column(c) ==
    Col(c.name, "float64",
        MapVals(c.vals, LAMBDA v : IF IsStr(v) THEN to_numeric(Str(Replace(v.s, ",", "")))
                                   ELSE v))

\* the loop over the columns: every object column is converted
convert_object_columns(df) ==
    [df EXCEPT !.cols = [j \in 1..Len(df.cols) |->
        IF df.cols[j].dtype = "object" THEN comma_numeric_column(df.cols[j])
        ELSE df.cols[j]]]

\* the part of clean_census_data before the conversion loop
census_with_header(renamed) ==
    IF header_idx(renamed) > 0 THEN promote_header(renamed, header_idx(renamed)) ELSE renamed

census_raises(df) ==
    \/ (header_idx(clean_column_names(dropna_all(df))) > 0
        /\ promote_raises(clean_column_names(dropna_all(df)),
                          header_idx(clean_column_names(dropna_all(df)))))
    \/ duplicate_names(census_with_header(clean_column_names(dropna_all(df))))

\* DataPreprocessor.clean_census_data (its last step keeps every numeric and
\* every object column)
clean_census_data(df) ==
    convert_object_columns(census_with_header(clean_column_names(dropna_all(df))))

id_cols == <<"Country Name", "Country Code", "Indicator Name", "Indicator Code">>

\* str(col).isdigit() and 1960 <= int(col) <= 2030
is_year_col(col) ==
    Len(col) > 0 /\ AllDigits(col) /\ ParseNat(col, 0) >= 1960 /\ ParseNat(col, 0) <= 2030

\* df.melt(id_vars, value_vars, var_name='Year', value_name='Value')
melt(df, id_vars, value_vars) ==
    LET n == NRows(df)
        Long(vals) == Flatten([y \in 1..Len(value_vars) |-> vals])
    IN DataFrame(
         [i \in 1..Len(id_vars) |->
             [GetCol(df, id_vars[i]) EXCEPT !.vals = Long(@)]]
         \o << Col("Year", "object",
                   Flatten([y \in 1..Len(value_vars) |-> [r \in 1..n |-> Str(value_vars[y])]])),
               Col("Value",
                   IF \E y \in 1..Len(value_vars) : GetCol(df, value_vars[y]).dtype = "object"
                   THEN "object" ELSE "float64",
                   Flatten([y \in 1..Len(value_vars) |-> GetCol(df, value_vars[y]).vals])) >>,
         RangeIndex(n * Len(value_vars)), "")

\* the melted table with Year and Value made numeric
melt_numeric(long) ==
    SetCol(SetCol(long, numeric_column(GetCol(long, "Year"))),
           numeric_column(GetCol(long, "Value")))

\* DataPreprocessor.clean_worldbank_data
clean_worldbank_data(df) ==
    LET available_id_cols == SelectSeq(id_cols, LAMBDA col : HasCol(df, col))
        kenya == IF HasCol(df, "Country Name")
                 THEN SelectRows(df, SelectSeq(RowPositions(df),
                          LAMBDA r : CellEq(GetCol(df, "Country Name").vals[r], Str("Kenya"))))
                 ELSE df
        year_cols == SelectSeq(ColNames(df), is_year_col)
    IN IF year_cols # <<>> /\ available_id_cols # <<>>
       THEN melt_numeric(melt(kenya, available_id_cols, year_cols))
       ELSE kenya

(***************************************************************************)
(* DataPreprocessor.process_all_datasets: each raw file goes through its   *)
(* chain inside a try; the result is written when nothing raised.          *)
(***************************************************************************)
EmptyTable == DataFrame(<<>>, <<>>, "")
NotSaved == [saved |-> FALSE, df |-> EmptyTable]
Saved(df) == [saved |-> TRUE, df |-> df]

process_dhs(df) ==
    IF IsNone(df) THEN NotSaved
    ELSE Saved(impute_missing_values(handle_outliers(clean_dhs_data(df))))

process_faostat(df) ==
    IF IsNone(df) \/ faostat_raises(df) THEN NotSaved
    ELSE Saved(impute_missing_values(clean_faostat_data(df)))

process_census(df) ==
    IF IsNone(df) \/ census_raises(df) THEN NotSaved
    ELSE Saved(impute_missing_values(clean_census_data(df)))

process_worldbank(df) ==
    IF IsNone(df) THEN NotSaved
    ELSE Saved(impute_missing_values(clean_worldbank_data(df)))

process_all_datasets(raw) ==
    [ dhs_household |-> process_dhs(raw.dhs_household),
      dhs_individual |-> process_dhs(raw.dhs_individual),
      faostat |-> process_faostat(raw.faostat),
      knbs |-> process_census(raw.knbs),
      worldbank |-> process_worldbank(raw.worldbank) ]

(***************************************************************************)
(* Raw files offered to the cleaner.                                       *)
(***************************************************************************)
MaxRawRows == 3

DhsCells == {Num(3), Num(999), NaN, PInf, NInf}

\* household recodes: a column of every mix of plain, coded, missing and
\* infinite cells, beside a plain one
DhsTables ==
    { Table(<< Col("hv009", "float64", vals), IntCol("hv012", "int64", [r \in 1..MaxRawRows |-> r]) >>) :
        vals \in [1..MaxRawRows -> DhsCells] }
    \cup
    { \* a code above the limit, and two equal rows
      Table(<< IntCol("hv009", "int64", <<4, 20000, 4>>), IntCol("hv012", "int64", <<1, 2, 1>>) >>),
      \* four missing cells out of five, and five out of six
      Table(<< Col("hv009", "float64", <<Num(5), NaN, NaN, NaN, NaN>>),
               IntCol("hv012", "int64", <<1, 2, 3, 4, 50>>) >>),
      Table(<< Col("hv009", "float64", <<Num(5), NaN, NaN, NaN, NaN, NaN>>),
               IntCol("hv012", "int64", <<1, 2, 3, 4, 5, 6>>) >>),
      \* a text column with a missing cell
      Table(<< Col("hv024", "object", <<Str("coast"), NaN>>),
               IntCol("hv012", "int64", <<1, 2>>) >>) }

FaostatTables ==
    { Table(<< StrCol("Area", <<"Kenya", "Uganda">>), IntCol("Year", "int64", <<2019, 2019>>),
               StrCol("Value", <<"12", "x">>) >>),
      \* an empty Note column
      Table(<< StrCol("Area", <<"Kenya", "Kenya">>), Col("Value", "float64", <<Num(3), NaN>>),
               Col("Note", "float64", <<NaN, NaN>>) >>),
      Table(<< IntCol("Area", "int64", <<404, 800>>), IntCol("Value", "int64", <<1, 2>>) >>),
      Table(<< StrCol("Item", <<"Maize", "Beans">>), Col("Value", "float64", <<PInf, Num(2)>>) >>) }

CensusTables ==
    { Table(<< StrCol("County", <<"Nairobi", "Mombasa">>), StrCol("Total ", <<"1,200", "900">>) >>),
      \* a title line and the header line among the rows
      Table(<< StrCol("Unnamed: 0", <<"Table 1", "County Name", "Nairobi">>),
               Col("Unnamed: 1", "object", <<NaN, Str("Population"), Str("4,397")>>) >>),
      \* the header line once an empty line above it is dropped
      Table(<< Col("Unnamed: 0", "object", <<NaN, Str("Table 2"), Str("County Code")>>),
               Col("Unnamed: 1", "object", <<NaN, Str("x"), Str("Population")>>) >>),
      Table(<< Col("Population", "float64", <<Num(5), NaN, Num(9)>>) >>) }

WorldBankTables ==
    { Table(<< StrCol("Country Name", <<"Kenya", "Uganda">>), StrCol("Indicator Name", <<"GDP", "GDP">>),
               Col("1960", "float64", <<NaN, Num(5)>>), Col("2020", "float64", <<Num(10), Num(6)>>) >>),
      \* an indicator without any value for Kenya
      Table(<< StrCol("Country Name", <<"Kenya", "Uganda">>), StrCol("Indicator Name", <<"GDP", "GDP">>),
               Col("1960", "float64", <<NaN, Num(5)>>), Col("2020", "float64", <<NaN, Num(6)>>) >>),
      Table(<< StrCol("Series", <<"a", "b">>), Col("2020", "float64", <<Num(1), NaN>>) >>) }

NoRaw ==
    [dhs_household |-> None, dhs_individual |-> None, faostat |-> None,
     knbs |-> None, worldbank |-> None]

\* what the raw folder may hold
RawFolders ==
    { [NoRaw EXCEPT !.dhs_household = t] : t \in DhsTables }
    \cup { [NoRaw EXCEPT !.dhs_individual = t] : t \in {tt \in DhsTables : NRows(tt) # MaxRawRows} }
    \cup { [NoRaw EXCEPT !.faostat = t] : t \in FaostatTables }
    \cup { [NoRaw EXCEPT !.knbs = t] : t \in CensusTables }
    \cup { [NoRaw EXCEPT !.worldbank = t] : t \in WorldBankTables }
    \cup { [dhs_household |-> h, dhs_individual |-> None, faostat |-> f, knbs |-> k, worldbank |-> w] :
             h \in {tt \in DhsTables : NRows(tt) = 2}, f \in FaostatTables,
             k \in {tt \in CensusTables : NRows(tt) = 2}, w \in {None} }

InitClean ==
    /\ dhs_data = None
    /\ faostat_data = None
    /\ knbs_data = None
    /\ runs = None
    /\ fs = None
    /\ last = None
    /\ clean_in = NoRaw
    /\ clean_out = process_all_datasets(NoRaw)
    /\ ev = None

\* python preprocessing.py on some raw folder
ProcessAllDatasets ==
    /\ \E raw \in RawFolders :
          /\ clean_in' = raw
          /\ clean_out' = process_all_datasets(raw)
    /\ UNCHANGED <<cfVars, storeVars, evalVars>>

NextClean == ProcessAllDatasets

SpecClean == InitClean /\ [][NextClean]_vars

(***************************************************************************)
(* Properties of the cleaner.                                              *)
(***************************************************************************)
Outputs == {"dhs_household", "dhs_individual", "faostat", "knbs", "worldbank"}

\* no numeric column of df holds a missing cell and no column an infinite one
CleanTable(df) ==
    \A j \in 1..Len(df.cols) : \A r \in 1..Len(df.cols[j].vals) :
        /\ IsNumber(df.cols[j].dtype) => ~IsNA(df.cols[j].vals[r])
        /\ ~IsInf(df.cols[j].vals[r])

\* C6: whatever the raw table, the table a cleaning chain writes (DHS:
\* clean_dhs_data, handle_outliers, impute_missing_values; the other sources:
\* their clean function, then impute_missing_values) has no missing value in a
\* numeric column and no infinite value.
C6_CleanOutput ==
    \A o \in Outputs : clean_out[o].saved => CleanTable(clean_out[o].df)

\* the DHS chain has written a table from a household recode that held an
\* infinite cell
C6_Witness ==
    /\ ~IsNone(clean_in.dhs_household)
    /\ clean_out.dhs_household.saved
    /\ HasCol(clean_in.dhs_household, "hv009")
    /\ HasCol(clean_out.dhs_household.df, "hv009")
    /\ \E r \in 1..NRows(clean_in.dhs_household) :
          IsInf(GetCol(clean_in.dhs_household, "hv009").vals[r])

(***************************************************************************)
(* The relative-error statistic of evaluate_model_accuracy.py and          *)
(* test_ml_pipeline_quick.py.                                              *)
(***************************************************************************)
\* np.abs((y_test - y_pred) / y_test * 100), row by row
error_percent(y_test, y_pred) ==
    ZipVals(y_test, y_pred, LAMBDA t, p : FAbs(FMul(FDiv(FSub(t, p), t), Num(100))))

\* (errors <= limit).mean() * 100
within_percent(errors, limit) ==
    FMul(MeanOf(MapVals(errors, LAMBDA e : IF FLe(e, Num(limit)) THEN Num(1) ELSE Num(0))),
         Num(100))

\* the statistics of one evaluation, with the divisor used for each row
Evaluation(script, y_test, y_pred, errors) ==
    [ script |-> script, y_test |-> y_test, y_pred |-> y_pred,
      divisor |-> y_test,
      error_percent |-> errors,
      within_10_percent |-> within_percent(errors, 10),
      within_20_percent |-> within_percent(errors, 20) ]

evaluate(script, y_test, y_pred) ==
    Evaluation(script, y_test, y_pred, error_percent(y_test, y_pred))

MaxTestRows == 2

\* poverty_index values of the test rows, and predictions for them
TargetValues == {Num(0), Num(10), Num(50)}
PredictedValues == {Num(0), Num(9), Rat(91, 2)}

TestSets ==
    UNION { { <<y_test, y_pred>> : y_test \in [1..n -> TargetValues],
                                   y_pred \in [1..n -> PredictedValues] } :
            n \in 1..MaxTestRows }

InitEval ==
    /\ dhs_data = None
    /\ faostat_data = None
    /\ knbs_data = None
    /\ runs = None
    /\ fs = None
    /\ last = None
    /\ clean_in = None
    /\ clean_out = None
    /\ ev = evaluate("", <<>>, <<>>)

\* evaluate_model_accuracy.load_model_and_evaluate, from model.predict on
EvaluateModelAccuracy ==
    /\ \E t \in TestSets : ev' = evaluate("evaluate_model_accuracy", t[1], t[2])
    /\ UNCHANGED <<cfVars, storeVars, cleanVars>>

\* test_ml_pipeline_quick.quick_test, from model.predict on
QuickTest ==
    /\ \E t \in TestSets : ev' = evaluate("test_ml_pipeline_quick", t[1], t[2])
    /\ UNCHANGED <<cfVars, storeVars, cleanVars>>

NextEval ==
    \/ EvaluateModelAccuracy
    \/ QuickTest

SpecEval == InitEval /\ [][NextEval]_vars

\* C10: a test row whose actual target is 0 causes no division by zero: its
\* error comes from a defined alternative (a finite number), and the within-10%
\* and within-20% statistics reported are finite numbers.
C10_NoDivisionByZero ==
    /\ \A i \in 1..Len(ev.y_test) :
          CellEq(ev.y_test[i], Num(0)) =>
              /\ ~CellEq(ev.divisor[i], Num(0))
              /\ IsFinite(ev.error_percent[i])
    /\ ev.y_test # <<>> => (IsFinite(ev.within_10_percent) /\ IsFinite(ev.within_20_percent))

\* an evaluation over a test set with a row whose target is 0 and a row whose
\* target is not
C10_Witness ==
    /\ ev.script = "evaluate_model_accuracy"
    /\ \E i \in 1..Len(ev.y_test) : CellEq(ev.y_test[i], Num(0))
    /\ \E i \in 1..Len(ev.y_test) : ~CellEq(ev.y_test[i], Num(0))

(***************************************************************************)
(* Successive program runs on different files: load_dhs_data returns       *)
(* another household table and create_features is called on it.            *)
(***************************************************************************)
\* what create_features hands to its caller: `return X` (line 624), which
\* run_full_pipeline binds to features_df (line 887)
returned(run) == run.X

PathOthers ==
    { << IntCol("hv009", "int64", <<3, 5>>) >>,
      << IntCol("hv009", "int64", <<3, 3>>) >>,
      << IntCol("hv009", "int64", <<3, 5>>), IntCol("hv012", "int64", <<2, 1>>) >>,
      << IntCol("hv009", "int64", <<3, 5>>), IntCol("wealth_idx", "int64", <<4, 4>>) >> }

PathQuintiles ==
    { <<>>,
      << IntCol("hv270", "int64", <<1, 4>>) >>,
      << IntCol("hv270", "int64", <<2, 2>>) >>,
      << IntCol("hv270", "int64", <<1, 5>>) >> }

PathHouseholds == {None} \cup {Table(o \o q) : o \in PathOthers, q \in PathQuintiles}

InitPaths ==
    /\ \E hh \in PathHouseholds :
          dhs_data = [household |-> hh, individual |-> None, gps |-> None]
    /\ faostat_data = <<>>
    /\ knbs_data = <<>>
    /\ runs = <<>>
    /\ fs = None
    /\ last = None
    /\ clean_in = None
    /\ clean_out = None
    /\ ev = None

\* the next program run finds another household file
LoadDhsData ==
    /\ \E hh \in PathHouseholds :
          dhs_data' = [household |-> hh, individual |-> None, gps |-> None]
    /\ UNCHANGED <<faostat_data, knbs_data, runs, storeVars, cleanVars, evalVars>>

NextPaths == CreateFeatures \/ LoadDhsData

SpecPaths == InitPaths /\ [][NextPaths]_vars

\* C11: what create_features returns tells its caller which target path ran: a
\* run that took the authoritative path and a run that took the fallback path
\* never return the same value.
C11_PathObservable ==
    \A i, j \in 1..Len(runs) :
        (runs[i].path = "authoritative" /\ runs[j].path = "fallback")
            => returned(runs[i]) # returned(runs[j])

\* two calls have returned, one after the authoritative path and one after the
\* fallback path
C11_Witness ==
    /\ Len(runs) = 2
    /\ runs[1].path = "authoritative"
    /\ runs[2].path = "fallback"

(***************************************************************************)
(* Failed pipeline runs and the artifacts on disk.                         *)
(***************************************************************************)
\* ml_features.csv, the *_model.pkl files and feature_names.txt
artifacts(store) == [csv |-> store.csv, models |-> store.models, names |-> store.names]

\* C12: a run of run_full_pipeline that ends in an exception leaves
\* ml_features.csv, every *_model.pkl and feature_names.txt as the previous
\* successful run saved them.
C12_FailedRunKeepsArtifacts ==
    [][(/\ fs.saved_by = "save_model"
        /\ last'.op = "run_full_pipeline"
        /\ ~last'.ok) => artifacts(fs') = artifacts(fs)]_vars

\* a pipeline run has just ended in an exception while the store holds the
\* models and the names a successful run saved
C12_Witness ==
    /\ last.op = "run_full_pipeline"
    /\ ~last.ok
    /\ fs.saved_by = "save_model"
    /\ fs.models["random_forest_model.pkl"].exists
    /\ fs.csv.exists

(***************************************************************************)
(* The combining loop and what it reports.                                 *)
(***************************************************************************)
\* a printed line that tells of a positional concatenation
announces_positional(message) ==
    \/ Contains("position", Lower(message))
    \/ Contains("concat", Lower(message))
    \/ Contains("by index", Lower(message))
    \/ Contains("row order", Lower(message))

\* C13: a feature set without a matching join key is concatenated by position
\* only when both tables have the same number of rows, and every positional
\* concatenation comes with a printed warning.
C13_PositionalConcatAnnounced ==
    \A i \in 1..Len(runs) : \A k \in 1..Len(runs[i].combine) :
        runs[i].combine[k].how = "positional" =>
            /\ runs[i].combine[k].left_rows = runs[i].combine[k].right_rows
            /\ \E m \in 1..Len(runs[i].combine[k].printed) :
                  announces_positional(runs[i].combine[k].printed[m])

\* a run that concatenated an auxiliary feature set by position
C13_Witness ==
    /\ runs # <<>>
    /\ \E k \in 1..Len(runs[1].combine) :
          /\ runs[1].combine[k].how = "positional"
          /\ runs[1].combine[k].left_rows = runs[1].combine[k].right_rows
    /\ \E c \in Range(runs[1].before_cleanup) : Contains("faostat_", c)

(***************************************************************************)
(* What the scripts say about an R2 score.                                 *)
(***************************************************************************)
\* evaluate_model_accuracy.load_model_and_evaluate: the leakage warning and the
\* performance assessment
assess_evaluate(r2) ==
    (IF FLt(Rat(99, 100), r2)
     THEN << "WARNING: R2 = 1.0 indicates potential DATA LEAKAGE" >> ELSE <<>>)
    \o << IF FLe(Rat(99, 100), r2)
          THEN "SUSPICIOUS (R2 >= 0.99) - Likely data leakage, not real accuracy"
          ELSE IF FLe(Rat(8, 10), r2)
          THEN "EXCELLENT (R2 >= 0.8) - Model is highly accurate"
          ELSE IF FLe(Rat(7, 10), r2)
          THEN "GOOD (R2 >= 0.7) - Model is accurate for production use"
          ELSE IF FLe(Rat(6, 10), r2)
          THEN "MODERATE (R2 >= 0.6) - Model is acceptable but could be improved"
          ELSE "POOR (R2 < 0.6) - Model needs improvement" >>

\* test_ml_pipeline_quick.quick_test: the assessment
assess_quick_test(r2) ==
    << IF FLe(Rat(99, 100), r2)
       THEN "SUSPICIOUS: R2 >= 0.99 - Still indicates potential data leakage"
       ELSE IF FLe(Rat(7, 10), r2)
       THEN "EXCELLENT: R2 >= 0.7 - Model is accurate and realistic"
       ELSE IF FLe(Rat(6, 10), r2)
       THEN "GOOD: R2 >= 0.6 - Model is acceptable"
       ELSE IF FLe(Rat(5, 10), r2)
       THEN "MODERATE: R2 >= 0.5 - Model needs improvement"
       ELSE "POOR: R2 < 0.5 - Model needs significant improvement" >>

\* max(results.items(), key=lambda x: x[1]['r2'])[1]['r2']
best_r2(scores) == series_max(scores)

\* PovertyMLPipeline.print_model_comparison: the line after the table
print_model_comparison(scores) == << "Best Model: (R2 = best)" >>

\* PovertyMLPipeline.save_model: the line after the files are written
save_model_summary(scores) == << "Best model: (R2 = best)" >>

\* one report: the script, the scores it lists, the R2 it assesses and what it
\* printed about that R2
Report(script, scores, printed) ==
    [script |-> script, scores |-> scores, r2 |-> best_r2(scores), printed |-> printed]

R2Values ==
    { Rat(3, 10), Rat(1, 2), Rat(3, 5), Rat(13, 20), Rat(7, 10), Rat(4, 5),
      Rat(17, 20), Rat(9, 10), Rat(19, 20), Rat(99, 100), Rat(199, 200), Num(1) }

\* the scores of the models trained in one pipeline run (two to four models;
\* two stand for them)
ModelScores == { <<a, b>> : a \in R2Values, b \in R2Values }

InitReport ==
    /\ dhs_data = None
    /\ faostat_data = None
    /\ knbs_data = None
    /\ runs = None
    /\ fs = None
    /\ last = None
    /\ clean_in = None
    /\ clean_out = None
    /\ ev = Report("", << Num(0) >>, <<>>)

PrintModelComparison ==
    /\ \E scores \in ModelScores :
          ev' = Report("print_model_comparison", scores, print_model_comparison(scores))
    /\ UNCHANGED <<cfVars, storeVars, cleanVars>>

SaveModelSummary ==
    /\ \E scores \in ModelScores :
          ev' = Report("save_model", scores, save_model_summary(scores))
    /\ UNCHANGED <<cfVars, storeVars, cleanVars>>

AssessEvaluate ==
    /\ \E r2 \in R2Values : ev' = Report("load_model_and_evaluate", << r2 >>, assess_evaluate(r2))
    /\ UNCHANGED <<cfVars, storeVars, cleanVars>>

AssessQuickTest ==
    /\ \E r2 \in R2Values : ev' = Report("quick_test", << r2 >>, assess_quick_test(r2))
    /\ UNCHANGED <<cfVars, storeVars, cleanVars>>

NextReport ==
    \/ PrintModelComparison
    \/ SaveModelSummary
    \/ AssessEvaluate
    \/ AssessQuickTest

SpecReport == InitReport /\ [][NextReport]_vars

\* a printed line that flags a suspected leakage
flags_leakage(line) ==
    Contains("suspicious", Lower(line)) \/ Contains("leakage", Lower(line))

\* a printed line that presents the fit as good, excellent or best
praises(line) ==
    \/ Contains("good", Lower(line))
    \/ Contains("excellent", Lower(line))
    \/ Contains("best", Lower(line))

Flagged(report) == \E i \in 1..Len(report.printed) : flags_leakage(report.printed[i])

\* C14: every report of an R2 of 0.99 or more flags it as suspected leakage and
\* does not call it good, excellent or best without that flag; an R2 between
\* 0.7 and 0.9 is never flagged as suspicious.
C14_LeakageFlagged ==
    ev.script # "" =>
        /\ FLe(Rat(99, 100), ev.r2) => Flagged(ev)
        /\ (FLe(Rat(99, 100), ev.r2) /\ \E i \in 1..Len(ev.printed) : praises(ev.printed[i]))
              => Flagged(ev)
        /\ (FLe(Rat(7, 10), ev.r2) /\ FLe(ev.r2, Rat(9, 10))) => ~Flagged(ev)

\* the pipeline has reported a best model whose R2 is 0.99 or more
C14_Witness ==
    /\ ev.script = "print_model_comparison"
    /\ FLe(Rat(99, 100), ev.r2)
    /\ \E i \in 1..Len(ev.printed) : praises(ev.printed[i])

(***************************************************************************)
(* Range of the target.                                                    *)
(***************************************************************************)
InRange(v, lo, hi) == IsFinite(v) /\ FLe(Num(lo), v) /\ FLe(v, Num(hi))

\* C15: every poverty_index value in a table returned by create_features lies
\* in [0, 100], whichever path built the column.
C15_TargetInRange ==
    \A i \in 1..Len(runs) :
        HasCol(runs[i].X, "poverty_index") =>
            \A r \in 1..NRows(runs[i].X) :
                InRange(GetCol(runs[i].X, "poverty_index").vals[r], 0, 100)

\* a run that built the target as the weighted mix of several columns and
\* returned it
C15_Witness ==
    /\ runs # <<>>
    /\ runs[1].path = "fallback"
    /\ runs[1].random
    /\ ColNames(runs[1].X) = <<"hv009", "hv012", "hv009_x_hv012", "poverty_index">>

(***************************************************************************)
(* Objects and names.  A DataFrame is an object; a Python variable names   *)
(* one.  `b = a` makes b name the object of a; `b = a.copy()` makes a new  *)
(* object with the same content; `b[col] = ...` and `b.columns = ...`      *)
(* write into the object b names, whoever else names it.                   *)
(***************************************************************************)
\* the objects the caller passes, bound to the names given
Passed(names, tables) ==
    [obj |-> tables, names |-> [n \in Range(names) |-> CHOOSE i \in 1..Len(names) : names[i] = n]]

value(s, name) == s.obj[s.names[name]]

\* new = old
alias(s, new, old) == [s EXCEPT !.names = (new :> s.names[old]) @@ s.names]

\* both names on one object, where the code copies
same_object(s, new, old) == alias(s, new, old)

\* new = old.copy()
copy(s, new, old) ==
    [obj |-> Append(s.obj, value(s, old)), names |-> (new :> (Len(s.obj) + 1)) @@ s.names]

\* name = <an expression that builds a table>
rebind(s, name, table) ==
    [obj |-> Append(s.obj, table), names |-> (name :> (Len(s.obj) + 1)) @@ s.names]

\* name[...] = ...: the object name refers to now holds table
assign(s, name, table) == [s EXCEPT !.obj[s.names[name]] = table]

\* the objects the caller passed, as they are when the call returns
held(s, passed) == [i \in 1..Len(passed) |-> s.obj[i]]

(***************************************************************************)
(* The cleaning operations of preprocessing.py, statement by statement.    *)
(***************************************************************************)
\* lines 33-37 of clean_dhs_data
replace_all_codes(df) ==
    [df EXCEPT !.cols = [j \in 1..Len(df.cols) |->
        IF IsNumber(df.cols[j].dtype) THEN replace_missing_codes(df.cols[j]) ELSE df.cols[j]]]

\* lines 40-44 of clean_dhs_data
cols_to_drop(df) == {c \in Range(ColNames(df)) : mostly_missing(GetCol(df, c).vals)}

\* name[...] = F(name)
assign_of(s, name, F(_)) == assign(s, name, F(value(s, name)))

\* name = F(name)
rebind_of(s, name, F(_)) == rebind(s, name, F(value(s, name)))

\* lines 46-48 of clean_dhs_data
drop_mostly_missing(s) ==
    IF cols_to_drop(value(s, "df_clean")) # {}
    THEN rebind_of(s, "df_clean", LAMBDA t : DropCols(t, cols_to_drop(t)))
    ELSE s

\* clean_dhs_data, lines 29-58
clean_dhs_data_stmts(s0) ==
    rebind_of(
        assign_of(
            drop_mostly_missing(
                assign_of(copy(s0, "df_clean", "df"), "df_clean", replace_all_codes)),
            "df_clean", replace_infinite),
        "df_clean", drop_duplicates)

\* lines 85-90 of clean_census_data
census_header(s) ==
    IF header_idx(value(s, "df_clean")) > 0
    THEN rebind_of(s, "df_clean", LAMBDA t : promote_header(t, header_idx(t)))
    ELSE s

\* lines 93-101 of clean_census_data; `df_clean[col].dtype` raises on a repeated name
census_convert(s) ==
    IF duplicate_names(value(s, "df_clean")) THEN s
    ELSE assign_of(s, "df_clean", convert_object_columns)

\* lines 78-108 of clean_census_data; an exception leaves the function where it is raised
census_after_names(s) ==
    IF header_idx(value(s, "df_clean")) > 0
       /\ promote_raises(value(s, "df_clean"), header_idx(value(s, "df_clean")))
    THEN s
    ELSE census_convert(census_header(s))

\* clean_census_data, lines 68-108
clean_census_data_stmts(s0) ==
    census_after_names(
        assign_of(rebind_of(copy(s0, "df_clean", "df"), "df_clean", dropna_all),
                  "df_clean", clean_column_names))

\* whether some row's Area holds 'Kenya' (line 138)
kenya_mask_any(df) ==
    \E r \in 1..NRows(df) :
        IsStr(GetCol(df, "Area").vals[r]) /\ Contains("kenya", Lower(GetCol(df, "Area").vals[r].s))

\* line 123 of clean_faostat_data
faostat_available_cols(df) == SelectSeq(essential_cols, LAMBDA col : HasCol(df, col))

\* lines 125-129 of clean_faostat_data
faostat_order(s) ==
    IF faostat_available_cols(value(s, "df_clean")) # <<>> /\ HasCol(value(s, "df_clean"), "Year")
    THEN rebind_of(s, "df_clean",
                   LAMBDA t : SelectCols(t, faostat_available_cols(t)
                                            \o SelectSeq(ColNames(t),
                                                         LAMBDA col : ~InSeq(col, faostat_available_cols(t)))))
    ELSE s

\* lines 135-139 of clean_faostat_data
faostat_kenya(s) ==
    IF HasCol(value(s, "df_clean"), "Area") /\ kenya_mask_any(value(s, "df_clean"))
    THEN rebind_of(s, "df_clean", kenya_rows)
    ELSE s

\* lines 142-143 of clean_faostat_data
faostat_value(s) ==
    IF HasCol(value(s, "df_clean"), "Value")
    THEN assign_of(s, "df_clean", LAMBDA t : SetCol(t, numeric_column(GetCol(t, "Value"))))
    ELSE s

\* lines 135-143; `.str` raises at line 137
faostat_after_order(s) ==
    IF faostat_raises(value(s, "df_clean")) THEN s ELSE faostat_value(faostat_kenya(s))

\* clean_faostat_data, lines 118-143
clean_faostat_data_stmts(s0) == faostat_after_order(faostat_order(copy(s0, "df_clean", "df")))

\* lines 161-162 of clean_worldbank_data
worldbank_kenya(s) ==
    IF HasCol(value(s, "df_clean"), "Country Name")
    THEN rebind_of(s, "df_clean",
                   LAMBDA t : SelectRows(t, SelectSeq(RowPositions(t),
                       LAMBDA r : CellEq(GetCol(t, "Country Name").vals[r], Str("Kenya")))))
    ELSE s

\* lines 165-176 of clean_worldbank_data
worldbank_melt(s, available_id_cols) ==
    IF SelectSeq(ColNames(value(s, "df_clean")), is_year_col) # <<>> /\ available_id_cols # <<>>
    THEN assign_of(
             rebind_of(s, "df_clean",
                       LAMBDA t : melt(t, available_id_cols, SelectSeq(ColNames(t), is_year_col))),
             "df_clean", melt_numeric)
    ELSE s

\* clean_worldbank_data, lines 153-176
clean_worldbank_data_stmts(s0) ==
    worldbank_melt(worldbank_kenya(copy(s0, "df_clean", "df")),
                   SelectSeq(id_cols, LAMBDA col : HasCol(value(s0, "df"), col)))

\* handle_outliers(df, method='iqr'), lines 187-203
handle_outliers_stmts(s0) == assign_of(copy(s0, "df_clean", "df"), "df_clean", handle_outliers)

\* impute_missing_values(df, strategy='median'), lines 226-242
impute_missing_values_stmts(s0) ==
    assign_of(assign_of(copy(s0, "df_clean", "df"), "df_clean", fill_median),
              "df_clean", fill_unknown)

\* the k in lo..hi with k * k = n, -1 when there is none
RECURSIVE sqrt_between(_, _, _)
sqrt_between(n, lo, hi) ==
    IF lo > hi THEN -1
    ELSE LET mid == (lo + hi) \div 2
         IN IF mid * mid = n THEN mid
            ELSE IF mid * mid < n THEN sqrt_between(n, mid + 1, hi)
            ELSE sqrt_between(n, lo, mid - 1)

MaxRoot == 10000
int_sqrt(n) == sqrt_between(n, 0, MaxRoot)

\* whether the square root of v is a fraction
has_sqrt(v) ==
    ~IsNum(v) \/ v.sg = 0
    \/ (/\ v.sg > 0 /\ Len(v.n) <= 2 /\ Len(v.d) <= 2
        /\ int_sqrt(BToInt(v.n)) >= 0 /\ int_sqrt(BToInt(v.d)) >= 0)

\* np.sqrt(v) for such a v
sqrt(v) ==
    IF IsNaN(v) \/ (IsInf(v) /\ v.sg < 0) \/ (IsNum(v) /\ v.sg < 0) THEN NaN
    ELSE IF IsInf(v) \/ v.sg = 0 THEN v
    ELSE Rat(int_sqrt(BToInt(v.n)), int_sqrt(BToInt(v.d)))

\* Series.var(): the sample variance (ddof = 1) of the cells that are not missing
series_var(vals) ==
    IF Len(NonNA(vals)) < 2 THEN NaN
    ELSE FDiv(SumVals(MapVals(NonNA(vals),
                              LAMBDA v : FMul(FSub(v, series_mean(vals)),
                                              FSub(v, series_mean(vals))))),
              Num(Len(NonNA(vals)) - 1))

\* Series.std()
series_std(vals) == sqrt(series_var(vals))

\* (column - center) / scale
ScaleColumn(c, center, scale) ==
    Col(c.name, "float64", MapVals(c.vals, LAMBDA v : FDiv(FSub(v, center), scale)))

Methods == {"standard", "minmax", "robust"}

\* lines 259-270: the numeric columns under the method
standardized(df, method) ==
    [df EXCEPT !.cols = [j \in 1..Len(df.cols) |->
        IF ~IsNumber(df.cols[j].dtype) THEN df.cols[j]
        ELSE IF method = "standard"
        THEN ScaleColumn(df.cols[j], series_mean(df.cols[j].vals), series_std(df.cols[j].vals))
        ELSE IF method = "minmax"
        THEN ScaleColumn(df.cols[j], series_min(df.cols[j].vals),
                         FSub(series_max(df.cols[j].vals), series_min(df.cols[j].vals)))
        ELSE IF method = "robust"
        THEN ScaleColumn(df.cols[j], series_median(df.cols[j].vals),
                         FSub(quantile(df.cols[j].vals, 3, 4), quantile(df.cols[j].vals, 1, 4)))
        ELSE df.cols[j]]]

\* standardize_numeric_features(df, method), lines 257-272
standardize_numeric_features_stmts(s0, method) ==
    assign_of(copy(s0, "df_clean", "df"), "df_clean", LAMBDA t : standardized(t, method))

\* the tables whose standard deviations are fractions
std_is_fraction(df) ==
    \A j \in 1..Len(df.cols) :
        IsNumber(df.cols[j].dtype) => has_sqrt(series_var(df.cols[j].vals))

(***************************************************************************)
(* create_features, by the objects it touches: the household table is      *)
(* copied (line 260) and named again, uncopied, for the quintile lookup    *)
(* (line 535); the individual table is named as it is (line 370); every    *)
(* write goes to X.                                                        *)
(***************************************************************************)
\* lines 259-260 and 368-370
feature_names_bound(s, dhs) ==
    IF IsNone(dhs.individual)
    THEN (IF IsNone(dhs.household) THEN s ELSE copy(s, "hh_df", "household"))
    ELSE alias(IF IsNone(dhs.household) THEN s ELSE copy(s, "hh_df", "household"),
               "ind_df", "individual")

\* lines 532-535
quintile_lookup_bound(s, dhs) ==
    IF ~HasCol(value(s, "X"), "poverty_index") /\ find_quintile_col(value(s, "X")) = NoCol
       /\ ~IsNone(dhs.household)
    THEN alias(s, "hh_df", "household")
    ELSE s

create_features_stmts(s0, dhs, faostat, knbs, ord, seed) ==
    rebind_of(
        assign_of(
            quintile_lookup_bound(
                assign_of(
                    rebind(feature_names_bound(s0, dhs), "X",
                           combine_features(collect_features(dhs, faostat, knbs, ord, seed), seed)),
                    "X", LAMBDA t : handle_missing(derived_features(t))),
                dhs),
            "X", LAMBDA t : add_target(t, dhs, seed)),
        "X", final_cleanup)

\* the tables of dhs_data, faostat_data and knbs_data, as the caller holds them
feature_inputs(dhs, faostat, knbs) ==
    <<dhs.household, dhs.individual>>
    \o [i \in 1..Len(faostat) |-> faostat[i].df]
    \o [i \in 1..Len(knbs) |-> knbs[i].df]

feature_input_names(faostat, knbs) ==
    <<"household", "individual">>
    \o [i \in 1..Len(faostat) |-> "faostat_" \o faostat[i].name]
    \o [i \in 1..Len(knbs) |-> "knbs_" \o knbs[i].name]

(***************************************************************************)
(* Calls on tables the caller keeps.  clean_in is the call: the operation, *)
(* the tables passed and the same objects once the call has returned;      *)
(* clean_out is what the call returned.                                    *)
(***************************************************************************)
Call(op, passed, s, result) ==
    [op |-> op, passed |-> passed, held |-> held(s, passed), result |-> result]

CallOn(op, df, s) == Call(op, <<df>>, s, value(s, "df_clean"))

\* a call that raised returns nothing
Raised(op, df, s) == Call(op, <<df>>, s, None)

CleanerTables == DhsTables \cup FaostatTables \cup CensusTables \cup WorldBankTables

\* the households whose feature table is built without random numbers, with
\* and without an individual table
FrameInputs ==
    { <<[household |-> hh, individual |-> ind, gps |-> None], aux[2], aux[3]>> :
        hh \in {LongHousehold, AreaHousehold} \cup {Table(o) : o \in PathOthers},
        ind \in Individuals,
        aux \in {a \in AuxChoices : IsNone(a[1])} }

Idle(tables) == [op |-> "", passed |-> tables, held |-> tables]

\* the caller holds either one table for the cleaner or the tables for create_features
InitFrame ==
    /\ \/ /\ \E df \in CleanerTables : clean_in = Idle(<<df>>)
          /\ dhs_data = None
          /\ faostat_data = None
          /\ knbs_data = None
       \/ /\ clean_in = Idle(<<>>)
          /\ \E in \in FrameInputs :
                /\ dhs_data = in[1]
                /\ faostat_data = in[2]
                /\ knbs_data = in[3]
    /\ runs = None
    /\ fs = None
    /\ last = None
    /\ ev = None
    /\ clean_out = None

Returns(call) ==
    /\ clean_in' = [op |-> call.op, passed |-> call.passed, held |-> call.held]
    /\ clean_out' = call.result
    /\ UNCHANGED <<cfVars, storeVars, evalVars>>

\* the table the caller holds
its_table == clean_in.held[1]

CleanDhsData ==
    /\ Len(clean_in.held) = 1
    /\ Returns(CallOn("clean_dhs_data", its_table,
                      clean_dhs_data_stmts(Passed(<<"df">>, <<its_table>>))))

CleanCensusData ==
    /\ Len(clean_in.held) = 1
    /\ Returns(IF census_raises(its_table)
               THEN Raised("clean_census_data", its_table,
                           clean_census_data_stmts(Passed(<<"df">>, <<its_table>>)))
               ELSE CallOn("clean_census_data", its_table,
                           clean_census_data_stmts(Passed(<<"df">>, <<its_table>>))))

CleanFaostatData ==
    /\ Len(clean_in.held) = 1
    /\ Returns(IF faostat_raises(its_table)
               THEN Raised("clean_faostat_data", its_table,
                           clean_faostat_data_stmts(Passed(<<"df">>, <<its_table>>)))
               ELSE CallOn("clean_faostat_data", its_table,
                           clean_faostat_data_stmts(Passed(<<"df">>, <<its_table>>))))

CleanWorldbankData ==
    /\ Len(clean_in.held) = 1
    /\ Returns(CallOn("clean_worldbank_data", its_table,
                      clean_worldbank_data_stmts(Passed(<<"df">>, <<its_table>>))))

HandleOutliers ==
    /\ Len(clean_in.held) = 1
    /\ Returns(CallOn("handle_outliers", its_table,
                      handle_outliers_stmts(Passed(<<"df">>, <<its_table>>))))

ImputeMissingValues ==
    /\ Len(clean_in.held) = 1
    /\ Returns(CallOn("impute_missing_values", its_table,
                      impute_missing_values_stmts(Passed(<<"df">>, <<its_table>>))))

StandardizeNumericFeatures ==
    /\ Len(clean_in.held) = 1
    /\ \E method \in Methods :
          /\ method = "standard" => std_is_fraction(its_table)
          /\ Returns(CallOn("standardize_numeric_features", its_table,
                            standardize_numeric_features_stmts(Passed(<<"df">>, <<its_table>>),
                                                               method)))

CreateFeaturesCall ==
    /\ ~IsNone(dhs_data)
    /\ \E seed \in 1..NumSeeds :
          Returns(Call("create_features", feature_inputs(dhs_data, faostat_data, knbs_data),
                       create_features_stmts(
                           Passed(feature_input_names(faostat_data, knbs_data),
                                  feature_inputs(dhs_data, faostat_data, knbs_data)),
                           dhs_data, faostat_data, knbs_data, 1, seed),
                       create_features(dhs_data, faostat_data, knbs_data, 1, seed)))

NextFrame ==
    \/ CleanDhsData
    \/ CleanCensusData
    \/ CleanFaostatData
    \/ CleanWorldbankData
    \/ HandleOutliers
    \/ ImputeMissingValues
    \/ StandardizeNumericFeatures
    \/ CreateFeaturesCall

SpecFrame == InitFrame /\ [][NextFrame]_vars

\* C16: when a cleaning operation or create_features returns, every table that
\* was passed to it has the columns, rows and values it had at the call.
C16_InputsUnchanged == clean_in.held = clean_in.passed

\* a call of clean_dhs_data that replaced a code, so that what it returned
\* differs from the table passed
C16_Witness ==
    /\ clean_in.op = "clean_dhs_data"
    /\ clean_out # clean_in.passed[1]
    /\ clean_out = replace_infinite(replace_all_codes(clean_in.passed[1]))

\* the statement lists return what the operations are defined to return
StmtsAgree ==
    /\ clean_in.op = "clean_dhs_data" => clean_out = clean_dhs_data(clean_in.passed[1])
    /\ (clean_in.op = "clean_census_data" /\ ~census_raises(clean_in.passed[1]))
           => clean_out = clean_census_data(clean_in.passed[1])
    /\ (clean_in.op = "clean_faostat_data" /\ ~faostat_raises(clean_in.passed[1]))
           => clean_out = clean_faostat_data(clean_in.passed[1])
    /\ clean_in.op = "clean_worldbank_data" => clean_out = clean_worldbank_data(clean_in.passed[1])
    /\ clean_in.op = "impute_missing_values" => clean_out = impute_missing_values(clean_in.passed[1])

\* the share of missing cells in a column
missing_fraction(vals) == FDiv(Num(Len(SelectSeq(vals, IsNA))), Num(Len(vals)))

exceeds_threshold(vals) == FLt(missing_threshold, missing_fraction(vals))

\* C17: clean_dhs_data removes exactly the columns whose share of missing cells,
\* codes and replaced maximum included, is above 0.8, and no column of the
\* table it returns has a share of missing cells above 0.8.
C17_MissingColumnsDropped ==
    clean_in.op = "clean_dhs_data" =>
        /\ \A c \in Range(ColNames(clean_in.passed[1])) :
              HasCol(clean_out, c)
                  <=> ~exceeds_threshold(GetCol(replace_all_codes(clean_in.passed[1]), c).vals)
        /\ \A c \in Range(ColNames(clean_out)) : ~exceeds_threshold(GetCol(clean_out, c).vals)

\* a call of clean_dhs_data that dropped one column and kept another
C17_Witness ==
    /\ clean_in.op = "clean_dhs_data"
    /\ \E c \in Range(ColNames(clean_in.passed[1])) : ~HasCol(clean_out, c)
    /\ \E c \in Range(ColNames(clean_in.passed[1])) : HasCol(clean_out, c)

\* C18: a table returned on the authoritative path holds neither the column the
\* quintile was read from nor any column whose lower-cased name contains
\* 'hv271', the ratio, interaction and squared columns included.
C18_QuintileAndIndexDropped ==
    \A i \in 1..Len(runs) :
        runs[i].path = "authoritative" =>
            /\ ~HasCol(runs[i].X, runs[i].source)
            /\ \A c \in Range(ColNames(runs[i].X)) : ~Contains("hv271", Lower(c))

\* an authoritative run on a household table with the columns HV271 and
\* hv271a, which are selected as features and enter the interaction terms
C18_Witness ==
    /\ runs # <<>>
    /\ runs[1].path = "authoritative"
    /\ runs[1].source # NoCol
    /\ ~IsNone(dhs_data.household)
    /\ HasCol(dhs_data.household, "HV271")
    /\ HasCol(runs[1].X, "hv009")
    /\ HasCol(runs[1].X, "poverty_index")

\* C19: in a table returned by create_features, on either target path, no
\* column other than poverty_index has a lower-cased name containing 'hv270'.
C19_NoQuintilePredictor ==
    \A i \in 1..Len(runs) :
        \A c \in Range(ColNames(runs[i].X)) :
            c # "poverty_index" => ~Contains("hv270", Lower(c))

\* an authoritative run on a household table whose quintile column is not
\* spelled 'hv270', returning a target and a feature
C19_Witness ==
    /\ runs # <<>>
    /\ runs[1].path = "authoritative"
    /\ runs[1].source # "hv270"
    /\ HasCol(runs[1].X, "poverty_index")
    /\ HasCol(runs[1].X, "hv009")

\* both cells missing, or equal
SameCell(a, b) == (IsNA(a) /\ IsNA(b)) \/ (~IsNA(a) /\ ~IsNA(b) /\ CellEq(a, b))

\* C20: on the authoritative path, when the quintile is recovered from the raw
\* household table (through v001 or by position), the quintile scored for each
\* output row is the one recorded for that same household.
C20_QuintileOfSameHousehold ==
    \A i \in 1..Len(runs) :
        (/\ runs[i].path = "authoritative"
         /\ runs[i].source = "hv270"
         /\ HasCol(dhs_data.household, "hv270")
         /\ Len(runs[i].quintile) = NRows(dhs_data.household))
            => \A r \in 1..Len(runs[i].quintile) :
                   SameCell(runs[i].quintile[r], GetCol(dhs_data.household, "hv270").vals[r])

\* an authoritative run that recovered the quintile through the v001 join
C20_Witness ==
    /\ runs # <<>>
    /\ runs[1].path = "authoritative"
    /\ runs[1].source = "hv270"
    /\ HasCol(dhs_data.household, "v001")
    /\ "v001" \in Range(runs[1].before_cleanup)
    /\ HasCol(runs[1].X, "poverty_index")

(***************************************************************************)
(* PovertyMLPipeline.prepare_train_test_split (ml_pipeline.py 626-664).    *)
(* The pipeline object keeps self.feature_names between calls; ev holds    *)
(* the object and what the last call was given and returned (SpecSplit).   *)
(***************************************************************************)
MaxSplitRows == 4
MaxSplitCalls == 2

\* sklearn's ShuffleSplit for test_size=0.2: ceil(0.2 * n) test rows, the rest train
n_test(n) == (n + 4) \div 5
n_train(n) == n - n_test(n)

\* numpy RandomState(42).permutation(n), as 1-based row positions
permutation_42(n) ==
    CASE n = 1 -> << 1 >>
      [] n = 2 -> << 2, 1 >>
      [] n = 3 -> << 1, 2, 3 >>
      [] n = 4 -> << 2, 4, 1, 3 >>
      [] n = 5 -> << 2, 5, 3, 1, 4 >>
      [] n = 6 -> << 1, 2, 6, 3, 5, 4 >>

\* train_test_split raises ValueError when the train set would be empty
train_test_split_raises(X) == NRows(X) = 0 \/ n_train(NRows(X)) = 0

test_rows(X) == SubSeq(permutation_42(NRows(X)), 1, n_test(NRows(X)))
train_rows(X) == SubSeq(permutation_42(NRows(X)), n_test(NRows(X)) + 1, NRows(X))

\* lines 635-651: the predictors handed to train_test_split
split_X(features_df) ==
    LET X == DropCols(features_df, {"poverty_index"})
        leakage_cols == {col \in Range(ColNames(X)) :
                            Contains("hv271", Lower(col)) /\ ~Contains("hv270", Lower(col))}
        numeric == DropCols(X, leakage_cols)
    IN fill_median(replace_infinite(SelectCols(numeric, NumericColumns(numeric))))

EmptyFrame == DataFrame(<<>>, <<>>, "")

SplitCall(calls, before, features_df, raised, X_train, X_test, feature_names) ==
    [calls |-> calls, before |-> before, features_df |-> features_df, raised |-> raised,
     X_train |-> X_train, X_test |-> X_test, feature_names |-> feature_names]

\* the call on a pipeline object whose self.feature_names is feature_names
prepare_train_test_split(calls, feature_names, features_df) ==
    IF split_raises(features_df) \/ train_test_split_raises(split_X(features_df))
    THEN SplitCall(calls + 1, feature_names, features_df, "ValueError",
                   EmptyFrame, EmptyFrame, feature_names)
    ELSE SplitCall(calls + 1, feature_names, features_df, "",
                   SelectRows(split_X(features_df), train_rows(split_X(features_df))),
                   SelectRows(split_X(features_df), test_rows(split_X(features_df))),
                   ColNames(split_X(features_df)))

\* the columns a features table handed to the method may carry
SplitColumn(name, n) ==
    CASE name = "hv009" -> Col(name, "int64", [i \in 1..n |-> Num(i + 2)])
      [] name = "HV271" -> Col(name, "int64", [i \in 1..n |-> Num(100 * i)])
      [] name = "hv270_x_hv271" -> Col(name, "int64", [i \in 1..n |-> Num(300 * i)])
      [] name = "hv271_squared" -> Col(name, "int64", [i \in 1..n |-> Num(100 * i * i)])
      [] name = "region" -> Col(name, "object", [i \in 1..n |-> Str("nairobi")])
      [] name = "water" -> Col(name, "float64",
                               [i \in 1..n |-> IF i = 1 THEN PInf
                                               ELSE IF i = 2 THEN NaN ELSE Num(10 * i)])
      [] name = "poverty_index" -> Col(name, "float64", [i \in 1..n |-> Num(10 * i)])

SplitColumnPool ==
    << "hv009", "HV271", "region", "hv270_x_hv271", "water", "poverty_index", "hv271_squared" >>

SplitTables ==
    { LET names == SelectSeq(SplitColumnPool, LAMBDA c : c \in chosen)
      IN DataFrame([j \in 1..Len(names) |-> SplitColumn(names[j], n)], RangeIndex(n), "")
      : chosen \in (SUBSET Range(SplitColumnPool)) \ {{}}, n \in 1..MaxSplitRows }

\* what each table gives on an object whose feature_names is still [] (line 67)
FirstSplit == [t \in SplitTables |-> prepare_train_test_split(0, <<>>, t)]

InitSplit ==
    /\ dhs_data = None
    /\ faostat_data = None
    /\ knbs_data = None
    /\ runs = None
    /\ fs = None
    /\ last = None
    /\ clean_in = None
    /\ clean_out = None
    /\ ev = SplitCall(0, <<>>, EmptyFrame, "", EmptyFrame, EmptyFrame, <<>>)

PrepareTrainTestSplit ==
    /\ ev.calls < MaxSplitCalls
    /\ \E features_df \in SplitTables :
          ev' = [FirstSplit[features_df] EXCEPT
                    !.calls = ev.calls + 1,
                    !.before = ev.feature_names,
                    !.feature_names = IF FirstSplit[features_df].raised = ""
                                      THEN @ ELSE ev.feature_names]
    /\ UNCHANGED <<cfVars, storeVars, cleanVars>>

NextSplit == PrepareTrainTestSplit

SpecSplit == InitSplit /\ [][NextSplit]_vars

\* C21: for a features table with poverty_index the call returns X_train and
\* X_test with the same ordered columns, none of them poverty_index or a name
\* that includes 'hv271' in lower case, and self.feature_names is that list;
\* without poverty_index it raises ValueError and leaves self.feature_names
C21_SplitColumns ==
    ev.calls > 0 =>
        IF HasCol(ev.features_df, "poverty_index")
        THEN /\ ev.raised = ""
             /\ ColNames(ev.X_train) = ColNames(ev.X_test)
             /\ \A col \in Range(ColNames(ev.X_train)) :
                    col # "poverty_index" /\ ~Contains("hv271", Lower(col))
             /\ ev.feature_names = ColNames(ev.X_train)
        ELSE /\ ev.raised = "ValueError"
             /\ ev.feature_names = ev.before

\* a table of four households with the interaction column has been split
C21_Witness ==
    /\ ev.calls > 0
    /\ ev.raised = ""
    /\ NRows(ev.features_df) = 4
    /\ HasCol(ev.features_df, "hv270_x_hv271")
    /\ HasCol(ev.features_df, "HV271")
    /\ NRows(ev.X_train) = 3
    /\ NRows(ev.X_test) = 1

(***************************************************************************)
(* The choice of household columns (ml_pipeline.py 264-335) on household   *)
(* tables of many columns (SpecSelect).  dhs_data is the loaded data, ev   *)
(* is what the selection gave.                                             *)
(***************************************************************************)
\* a one-row household table with `plain` numeric columns no keyword matches,
\* `keyword` numeric columns matched by 'asset', and optionally the wealth
\* attributes and a text column
WideHousehold(plain, keyword, wealth) ==
    DataFrame(
        [i \in 1..plain |-> IntCol("q" \o ToString(i), "int64", << i >>)]
        \o (IF wealth THEN << StrCol("region", << "coast" >>),
                              IntCol("hv271", "int64", << 12345 >>) >>
            ELSE <<>>)
        \o [i \in 1..keyword |-> IntCol("asset_" \o ToString(i), "int64", << i % 2 >>)]
        \o (IF wealth THEN << IntCol("hv270", "int64", << 2 >>) >> ELSE <<>>),
        RangeIndex(1), "")

PlainCounts == {0, 3, 14, 15, 60}
KeywordCounts == {0, 5, 19, 20, 30, 101}

WideHouseholds ==
    { WideHousehold(plain, keyword, wealth) :
        plain \in PlainCounts, keyword \in KeywordCounts, wealth \in BOOLEAN }

Selection(ord, candidates, available_cols) ==
    [ord |-> ord, candidates |-> candidates, available_cols |-> available_cols]

InitSelect ==
    /\ \E hh \in WideHouseholds : dhs_data = [household |-> hh, individual |-> None, gps |-> None]
    /\ faostat_data = <<>>
    /\ knbs_data = <<>>
    /\ runs = None
    /\ fs = None
    /\ last = None
    /\ clean_in = None
    /\ clean_out = None
    /\ ev = Selection(0, <<>>, <<>>)

\* lines 264-335 of one create_features call
SelectDhsColumns ==
    /\ ev.ord = 0
    /\ \E ord \in 1..NumSetOrders :
          ev' = Selection(ord, candidate_cols(dhs_data.household, ord),
                          select_dhs_columns(dhs_data.household, ord))
    /\ UNCHANGED <<cfVars, storeVars, cleanVars>>

NextSelect == SelectDhsColumns

SpecSelect == InitSelect /\ [][NextSelect]_vars

\* the numeric columns of the household table outside the exclusion set, in table order
numeric_outside_exclusion(hh_df) ==
    LET idx == SelectSeq([i \in 1..Len(hh_df.cols) |-> i],
                         LAMBDA i : /\ hh_df.cols[i].dtype \in {"int64", "float64"}
                                    /\ hh_df.cols[i].name \notin {"hv270", "hv271", "hv271a",
                                                                  "poverty_index"})
    IN [j \in 1..Len(idx) |-> hh_df.cols[idx[j]].name]

\* with fewer than 20 candidates the selection is the numeric non-excluded
\* household columns in table order, at most 100 of them
fallback_selection ==
    Len(ev.candidates) < 20 =>
        /\ Len(ev.available_cols) <= 100
        /\ ev.available_cols =
              SubSeq(numeric_outside_exclusion(dhs_data.household), 1, Len(ev.available_cols))
        /\ \/ Len(ev.available_cols) = 100
           \/ Len(ev.available_cols) = Len(numeric_outside_exclusion(dhs_data.household))

\* every selected column is a numeric household column outside the exclusion set
selected_are_household_columns ==
    \A col \in Range(ev.available_cols) :
        col \in Range(numeric_outside_exclusion(dhs_data.household))

C23_CleanupOnEveryColumn ==
    \A i \in 1..Len(runs) :
        /\ \A j \in 1..Len(runs[i].X.cols) :
              /\ Cardinality({v \in Range(runs[i].X.cols[j].vals) : ~IsNaN(v)}) > 1
              /\ runs[i].X.cols[j].dtype # "object"
              /\ runs[i].X.cols[j].dtype # "bool"
              /\ runs[i].X.cols[j].name \in Range(runs[i].before_cleanup)
        /\ (/\ runs[i].target # <<>>
            /\ Cardinality({v \in Range(runs[i].target) : ~IsNaN(v)}) <= 1)
              => ~HasCol(runs[i].X, "poverty_index")

\* a run whose target came out the same for every household, beside a
\* feature column that varies
C23_Witness ==
    /\ runs # <<>>
    /\ runs[1].path = "authoritative"
    /\ Len(runs[1].target) = 2
    /\ runs[1].target[1] = runs[1].target[2]
    /\ "hv009" \in Range(ColNames(runs[1].X))
    /\ "poverty_index" \in Range(runs[1].before_cleanup)

\* the keys of the combining loop that are a column of X and the name of the
\* index the feature set is grouped by
shared_keys(step) ==
    SelectSeq(<<"County", "county", "v001", "DHSCLUST", "Area">>,
              LAMBDA key : key \in Range(step.columns) /\ key = step.index_name)

\* C24: in the combining loop, a feature set whose index key is also a column
\* of the table built so far is left-joined on the first such key of 'County',
\* 'county', 'v001', 'DHSCLUST', 'Area', and every row of the table is kept
\* exactly once
C24_JoinedOnSharedKey ==
    \A i \in 1..Len(runs) : \A k \in 1..Len(runs[i].combine) :
        shared_keys(runs[i].combine[k]) # <<>> =>
            /\ runs[i].combine[k].how = "merged"
            /\ runs[i].combine[k].key = shared_keys(runs[i].combine[k])[1]
            /\ runs[i].combine[k].index_after = runs[i].combine[k].left_index

\* the household table carries v001 and the members were grouped by v001
C24_Witness ==
    /\ runs # <<>>
    /\ Len(runs[1].combine) = 1
    /\ runs[1].combine[1].index_name = "v001"
    /\ "v001" \in Range(runs[1].combine[1].columns)
    /\ runs[1].combine[1].how = "positional"

\* C25: with a GPS table that has DHSCLUST and one of LATNUM, LONGNUM,
\* URBAN_RURA, and a household table that has v001, the returned table has
\* those GPS columns and the run reports 'Added GPS features'
C25_GpsColumnsReturned ==
    \A i \in 1..Len(runs) :
        gps_merge_tried(dhs_data) =>
            /\ \E m \in 1..Len(runs[i].gps.printed) :
                  Contains("Added GPS features", runs[i].gps.printed[m])
            /\ \A col \in {"LATNUM", "LONGNUM"} :
                  HasCol(dhs_data.gps, col) => HasCol(runs[i].X, col)

\* a run that reported the GPS columns as added
C25_Witness ==
    /\ runs # <<>>
    /\ gps_merge_tried(dhs_data)
    /\ runs[1].gps.printed = << "Added GPS features" >>
    /\ "LATNUM" \in Range(runs[1].gps.dhs_features)
    /\ "LONGNUM" \in Range(runs[1].gps.dhs_features)
    /\ HasCol(runs[1].X, "hv009")

(***************************************************************************)
(* run_full_pipeline, stage by stage (ml_pipeline.py 839-938).  fs is the  *)
(* artifact store; ev is the run: where it stands, the stages begun so     *)
(* far, and what the optional stages and the fits did (SpecPipeline).      *)
(***************************************************************************)
StageOrder ==
    << "preprocess", "load", "create_features", "write_csv", "split", "train",
       "compare", "visualise", "save" >>

\* what a try block of an optional stage can end with
OptionalOutcomes == {"ok", "ImportError", "Exception"}

\* a visualisation that fails ends the run
visualisation_is_fatal(outcome) == IF outcome = "ok" THEN "save" ELSE "raised"

\* lines 905-926: both except branches print and fall through to step 8
after_visualisation(outcome) == "save"

\* lines 851-872: both except branches print and fall through to step 2
after_preprocessing(outcome) == "load"

PipelineRun(pc, stages, use_preprocessed, preprocessing, features_df, fitted, visualisation) ==
    [pc |-> pc, stages |-> stages, use_preprocessed |-> use_preprocessed,
     preprocessing |-> preprocessing, features_df |-> features_df, fitted |-> fitted,
     visualisation |-> visualisation]

InitPipeline ==
    /\ dhs_data = None
    /\ faostat_data = None
    /\ knbs_data = None
    /\ runs = None
    /\ \E xgboost \in BOOLEAN, lightgbm \in BOOLEAN : fs = EmptyStore(xgboost, lightgbm)
    /\ last = None
    /\ clean_in = None
    /\ clean_out = None
    /\ \E use_preprocessed \in BOOLEAN :
          ev = PipelineRun("preprocess", <<>>, use_preprocessed, "", EmptyFrame, <<>>, "")

Began(stage) == Append(ev.stages, stage)

\* step 1 (lines 850-876)
Preprocess ==
    /\ ev.pc = "preprocess"
    /\ \E outcome \in IF ev.use_preprocessed THEN OptionalOutcomes ELSE {"skipped"} :
          ev' = [ev EXCEPT !.pc = after_preprocessing(outcome),
                           !.stages = Began("preprocess"),
                           !.preprocessing = outcome]
    /\ UNCHANGED <<cfVars, storeVars, cleanVars>>

\* step 2 (lines 878-883): the loaders return tables or None
LoadDatasets ==
    /\ ev.pc = "load"
    /\ ev' = [ev EXCEPT !.pc = "create_features", !.stages = Began("load")]
    /\ UNCHANGED <<cfVars, storeVars, cleanVars>>

\* step 3 (lines 885-887)
CreateFeaturesStage ==
    /\ ev.pc = "create_features"
    /\ \E features_df \in FeatureTables :
          ev' = [ev EXCEPT !.pc = "write_csv", !.stages = Began("create_features"),
                           !.features_df = features_df]
    /\ UNCHANGED <<cfVars, storeVars, cleanVars>>

\* lines 889-892
WriteFeaturesCsv ==
    /\ ev.pc = "write_csv"
    /\ fs' = [fs EXCEPT !.csv = features_csv(ev.features_df)]
    /\ ev' = [ev EXCEPT !.pc = "split", !.stages = Began("write_csv")]
    /\ UNCHANGED <<cfVars, last, cleanVars>>

\* step 4 (lines 894-896)
SplitStage ==
    /\ ev.pc = "split"
    /\ ev' = [ev EXCEPT !.pc = IF split_raises(ev.features_df) THEN "raised" ELSE "train",
                        !.stages = Began("split")]
    /\ UNCHANGED <<cfVars, storeVars, cleanVars>>

\* step 5 (lines 898-900): train_models fits one estimator after the other
FitEstimator ==
    /\ ev.pc = "train"
    /\ Len(ev.fitted) < Len(trained_models(fs))
    /\ ev' = [ev EXCEPT
                 !.pc = IF fit_raises(split_feature_names(ev.features_df))
                        THEN "raised" ELSE "train",
                 !.stages = IF ev.fitted = <<>> THEN Began("train") ELSE @,
                 !.fitted = IF fit_raises(split_feature_names(ev.features_df))
                            THEN @ ELSE Append(@, trained_models(fs)[Len(@) + 1])]
    /\ UNCHANGED <<cfVars, storeVars, cleanVars>>

\* step 6 (lines 902-903), once train_models has returned
CompareStage ==
    /\ ev.pc = "train"
    /\ ev.fitted = trained_models(fs)
    /\ ev' = [ev EXCEPT !.pc = "visualise", !.stages = Began("compare")]
    /\ UNCHANGED <<cfVars, storeVars, cleanVars>>

\* step 7 (lines 905-926)
Visualise ==
    /\ ev.pc = "visualise"
    /\ \E outcome \in OptionalOutcomes :
          ev' = [ev EXCEPT !.pc = after_visualisation(outcome),
                           !.stages = Began("visualise"),
                           !.visualisation = outcome]
    /\ UNCHANGED <<cfVars, storeVars, cleanVars>>

\* step 8 (lines 928-930)
SaveModelStage ==
    /\ ev.pc = "save"
    /\ fs' = save_model(fs, ev.fitted, split_feature_names(ev.features_df))
    /\ ev' = [ev EXCEPT !.pc = "returned", !.stages = Began("save")]
    /\ UNCHANGED <<cfVars, last, cleanVars>>

NextPipeline ==
    \/ Preprocess
    \/ LoadDatasets
    \/ CreateFeaturesStage
    \/ WriteFeaturesCsv
    \/ SplitStage
    \/ FitEstimator
    \/ CompareStage
    \/ Visualise
    \/ SaveModelStage

SpecPipeline == InitPipeline /\ [][NextPipeline]_vars

stage_position(stage) == CHOOSE p \in 1..Len(StageOrder) : StageOrder[p] = stage

run_ended == ev.pc \in {"returned", "raised"}

\* C26: in a run of run_full_pipeline the stages begin at most once each and
\* in the order load, create_features, write csv, split, train, visualise,
\* save; no model file and no feature_names.txt exists before every
\* estimator has been fit; and a run whose preprocessing or visualisation
\* failed still goes through the stages after it
C26_StagesInOrder ==
    /\ \A i \in 1..Len(ev.stages) : \A j \in 1..Len(ev.stages) :
          i < j => stage_position(ev.stages[i]) < stage_position(ev.stages[j])
    /\ ((\E f \in ModelFiles : fs.models[f].exists) \/ fs.names.exists) =>
          /\ {"Random Forest", "Gradient Boosting"} \subseteq Range(ev.fitted)
          /\ fs.XGBOOST_AVAILABLE => "XGBoost" \in Range(ev.fitted)
          /\ fs.LIGHTGBM_AVAILABLE => "LightGBM" \in Range(ev.fitted)
    /\ (run_ended /\ ev.preprocessing \in {"ImportError", "Exception"}) =>
          {"load", "create_features", "write_csv", "split"} \subseteq Range(ev.stages)
    /\ (run_ended /\ ev.visualisation \in {"ImportError", "Exception"}) =>
          /\ "save" \in Range(ev.stages)
          /\ ev.pc = "returned"
    /\ ev.pc = "returned" =>
          ev.stages = << "preprocess", "load", "create_features", "write_csv", "split",
                         "train", "compare", "visualise", "save" >>

\* a run with all four estimators whose preprocessing and visualisation both
\* failed, and which saved its models
C26_Witness ==
    /\ ev.pc = "returned"
    /\ ev.preprocessing = "Exception"
    /\ ev.visualisation = "ImportError"
    /\ Len(ev.fitted) = 4
    /\ fs.names.exists
    /\ \A f \in ModelFiles : fs.models[f].exists

(***************************************************************************)
(* The loaders over optional sources that are absent, unreadable or        *)
(* present (ml_pipeline.py 71-248), followed by create_features            *)
(* (SpecSources).  last is the raw data directory and what the loaders     *)
(* did; the household recode itself is readable.                           *)
(***************************************************************************)
SourceStatus == {"absent", "unreadable", "present"}
OptionalSources == {"individual", "gps", "faostat", "knbs", "worldbank"}

\* `if file.exists(): try: read ... except Exception: print`: the value read,
\* or the value the variable was initialised with
read_or_default(status, table, default) == IF status = "present" THEN table ELSE default

\* no read of an optional source is outside a try block
loader_raises(status) == FALSE

FoodSecurity ==
    << [name |-> "food_security",
        df |-> Table(<< StrCol("Area", <<"Kenya", "Kenya", "Uganda">>),
                        IntCol("Value", "float64", <<1, 3, 5>>) >>)] >>

CensusVolume ==
    << [name |-> "volume1",
        df |-> Table(<< StrCol("County", <<"Nairobi", "Mombasa">>),
                        IntCol("Total", "int64", <<100, 200>>) >>)] >>

WorldBankTable ==
    Table(<< StrCol("Country Name", <<"Kenya">>), IntCol("2020", "float64", <<36>>) >>)

GpsTable ==
    Table(<< IntCol("DHSCLUST", "int64", <<7, 8>>), IntCol("LATNUM", "int64", <<-1, 2>>),
             IntCol("LONGNUM", "int64", <<36, 37>>) >>)

\* lines 71-163, raw DHS directory present, household recode hh read
load_dhs_data(files, hh) ==
    [household |-> hh,
     individual |-> read_or_default(files.individual, ClusterIndividual, None),
     gps |-> read_or_default(files.gps, GpsTable, None)]

\* lines 165-192
load_faostat_data(files) == read_or_default(files.faostat, FoodSecurity, <<>>)

\* lines 194-227
load_knbs_data(files) == read_or_default(files.knbs, CensusVolume, <<>>)

\* lines 229-248
load_worldbank_data(files) == read_or_default(files.worldbank, WorldBankTable, None)

SourceHouseholds ==
    { Table(<< IntCol("hv009", "int64", <<3, 5>>), IntCol("v001", "int64", <<7, 8>>),
               IntCol("hv270", "int64", <<1, 4>>) >>),
      Table(<< IntCol("hv009", "int64", <<3, 5>>), IntCol("v001", "int64", <<7, 8>>) >>),
      ClusterHousehold }

Loaders(files, household, loaded, raised, wb_data) ==
    [files |-> files, household |-> household, loaded |-> loaded, raised |-> raised,
     wb_data |-> wb_data]

InitSources ==
    /\ dhs_data = NoData
    /\ faostat_data = <<>>
    /\ knbs_data = <<>>
    /\ runs = <<>>
    /\ fs = None
    /\ \E files \in [OptionalSources -> SourceStatus], hh \in SourceHouseholds :
          last = Loaders(files, hh, FALSE, FALSE, None)
    /\ clean_in = None
    /\ clean_out = None
    /\ ev = None

\* step 2 of run_full_pipeline (lines 878-883)
RunLoaders ==
    /\ ~last.loaded
    /\ dhs_data' = load_dhs_data(last.files, last.household)
    /\ faostat_data' = load_faostat_data(last.files)
    /\ knbs_data' = load_knbs_data(last.files)
    /\ last' = [last EXCEPT !.loaded = TRUE,
                            !.raised = \E s \in OptionalSources : loader_raises(last.files[s]),
                            !.wb_data = load_worldbank_data(last.files)]
    /\ UNCHANGED <<runs, fs, cleanVars, evalVars>>

\* step 3 (line 887)
CreateFeaturesOnLoaded ==
    /\ last.loaded
    /\ ~last.raised
    /\ runs = <<>>
    /\ \E ord \in OrderChoices(dhs_data),
          seed \in SeedChoices(dhs_data, faostat_data, knbs_data) :
          runs' = << RunOf(dhs_data, faostat_data, knbs_data, ord, seed) >>
    /\ UNCHANGED <<dhs_data, faostat_data, knbs_data, storeVars, cleanVars, evalVars>>

NextSources == RunLoaders \/ CreateFeaturesOnLoaded

SpecSources == InitSources /\ [][NextSources]_vars

\* the call made when the sources that are not present are never supplied
never_supplied_dhs ==
    [household |-> last.household,
     individual |-> IF last.files.individual = "present" THEN ClusterIndividual ELSE None,
     gps |-> IF last.files.gps = "present" THEN GpsTable ELSE None]

never_supplied_faostat == IF last.files.faostat = "present" THEN FoodSecurity ELSE <<>>

never_supplied_knbs == IF last.files.knbs = "present" THEN CensusVolume ELSE <<>>

\* the tables such a call can return
never_supplied_results ==
    { create_features(never_supplied_dhs, never_supplied_faostat, never_supplied_knbs,
                      ord, seed) :
        ord \in 1..NumSetOrders, seed \in 1..NumSeeds }

\* the columns of X that come from the household table, and the target
household_part(X) ==
    [X EXCEPT !.cols = SelectSeq(X.cols,
                                 LAMBDA c : \/ HasCol(last.household, c.name)
                                            \/ c.name = "poverty_index")]

some_source_missing == \E s \in OptionalSources : last.files[s] # "present"

\* C27: when some optional sources are absent or unreadable, the loaders
\* raise nothing and return None or an empty mapping for them, create_features
\* returns a table, and its household columns and poverty_index values are
\* those of the call in which these sources were never supplied
C27_MissingSourcesHarmless ==
    (last.loaded /\ some_source_missing) =>
        /\ ~last.raised
        /\ last.files.individual # "present" => IsNone(dhs_data.individual)
        /\ last.files.gps # "present" => IsNone(dhs_data.gps)
        /\ last.files.faostat # "present" => faostat_data = <<>>
        /\ last.files.knbs # "present" => knbs_data = <<>>
        /\ last.files.worldbank # "present" => IsNone(last.wb_data)
        /\ \A i \in 1..Len(runs) :
              /\ NRows(runs[i].X) = NRows(last.household)
              /\ \A other \in never_supplied_results :
                    SameTable(household_part(runs[i].X), household_part(other))

\* a run after every optional source failed to load
C27_Witness ==
    /\ last.loaded
    /\ \A s \in OptionalSources : last.files[s] = "unreadable"
    /\ runs # <<>>
    /\ HasCol(runs[1].X, "hv009")
    /\ HasCol(runs[1].X, "poverty_index")

(***************************************************************************)
(* The maintenance scripts run against the artifact store: each run is     *)
(* recorded with the store it started from, what it printed, the models    *)
(* it fit and how the process ended.                                       *)
(***************************************************************************)
\* a script that takes the csv for present whatever the store holds
csv_never_missing(store) == FALSE

\* `if not data_path.exists()` / `if not features_path.exists()`
csv_missing(store) == ~store.csv.exists

\* what one run of a script did
ScriptRun(script, start, printed, fitted, exit_code) ==
    [ script |-> script, start |-> start, printed |-> printed,
      fitted |-> fitted, exit_code |-> exit_code ]

\* the files a run of train_if_absent fit: absent before, present after
fitted_files(start, store) ==
    {f \in ModelFiles : ~start.models[f].exists /\ store.models[f].exists}

\* evaluate_all_models.py: sys.exit(1) without the csv; no fit, no write
evaluate_all_models_run(store) ==
    IF csv_missing(store)
    THEN ScriptRun("evaluate_all_models", store, "ml_features.csv not found!", {}, 1)
    ELSE ScriptRun("evaluate_all_models", store, "", {}, 0)

\* evaluate_model_accuracy.load_model_and_evaluate: the model file, the
\* feature names and the csv are looked for in this order; each absence
\* prints its message and returns None
evaluate_model_accuracy_run(store) ==
    IF ~store.models["random_forest_model.pkl"].exists
    THEN ScriptRun("evaluate_model_accuracy", store, "Model file not found. Please train the model first.", {}, 0)
    ELSE IF ~store.names.exists
    THEN ScriptRun("evaluate_model_accuracy", store, "Feature names file not found.", {}, 0)
    ELSE IF csv_missing(store)
    THEN ScriptRun("evaluate_model_accuracy", store, "Feature data file not found.", {}, 0)
    ELSE ScriptRun("evaluate_model_accuracy", store, "", {}, 0)

\* train_missing_models.py / train_all_models_fast.py: sys.exit(1) without
\* the csv, before any model is looked at
training_script_run(script, store, after) ==
    IF csv_missing(store)
    THEN ScriptRun(script, store, "ml_features.csv not found!", {}, 1)
    ELSE ScriptRun(script, store, "", fitted_files(store, after), 0)

\* complete_training.check_existing_models
existing_models(store) == {f \in ModelFiles : store.models[f].exists}
missing_models(store) == ModelFiles \ existing_models(store)

\* complete_training.main returns at once: nothing is missing
all_models_trained(store) ==
    missing_models(store) = {} /\ Cardinality(existing_models(store)) >= 2

\* complete_training.main hands over to run_full_pipeline: the csv is absent
\* or has no poverty_index column
runs_full_feature_engineering(store) ==
    csv_missing(store) \/ ~InSeq("poverty_index", read_csv_columns(store.csv.text))

\* the missing models complete_training fits from the csv (the optional
\* libraries only when installed); a fit that raises leaves main through its
\* except before anything is saved
complete_training_fits(store) ==
    IF fit_raises(script_feature_cols(store)) THEN {}
    ELSE {f \in missing_models(store) : library_available(store, f)}

\* complete_training.main; features_df is what create_features returns when
\* the full pipeline is run
complete_training(store, features_df) ==
    IF all_models_trained(store) THEN store
    ELSE IF runs_full_feature_engineering(store)
    THEN run_full_pipeline(store, features_df)
    ELSE IF complete_training_fits(store) = {} THEN store
    ELSE write_feature_names(
           [store EXCEPT !.models =
               [f \in ModelFiles |->
                   IF f \in complete_training_fits(store)
                   THEN FittedModel(script_feature_cols(store))
                   ELSE store.models[f]]],
           script_feature_cols(store), "complete_training")

\* the models a run of complete_training fit
complete_training_fitted(store, features_df) ==
    IF all_models_trained(store) THEN {}
    ELSE IF runs_full_feature_engineering(store)
    THEN IF pipeline_raises(features_df) THEN {}
         ELSE {model_file(trained_models(store)[i]) : i \in 1..Len(trained_models(store))}
    ELSE complete_training_fits(store)

complete_training_run(store, features_df) ==
    ScriptRun("complete_training", store,
              IF all_models_trained(store) THEN "All models are already trained!"
              ELSE IF csv_missing(store)
              THEN "ml_features.csv not found. Running full feature engineering..."
              ELSE IF runs_full_feature_engineering(store)
              THEN "poverty_index not found. Running full pipeline..."
              ELSE "",
              complete_training_fitted(store, features_df), 0)

\* a model file left by an earlier training on other columns
EarlierModel == FittedModel(<<"earlier_feature">>)

\* the csv a store starts with: absent, or written from a features table
ScriptCsvs == {NoFile} \cup {features_csv(features_df) : features_df \in FeatureTables}

\* the stores a script can be started on
ScriptStores ==
    { [ csv |-> csv,
        models |-> [f \in ModelFiles |-> IF f \in present THEN EarlierModel ELSE NoModel],
        names |-> IF present = {} THEN NoFile ELSE File("earlier_feature"),
        feature_names |-> <<>>,
        saved_by |-> "",
        XGBOOST_AVAILABLE |-> libs[1],
        LIGHTGBM_AVAILABLE |-> libs[2] ] :
      csv \in ScriptCsvs, present \in SUBSET ModelFiles,
      libs \in BOOLEAN \X BOOLEAN }

NoScriptRun == ScriptRun("", EmptyStore(FALSE, FALSE), "", {}, 0)

InitScripts ==
    /\ dhs_data = None
    /\ faostat_data = None
    /\ knbs_data = None
    /\ runs = None
    /\ fs \in ScriptStores
    /\ last = NoScriptRun
    /\ clean_in = None
    /\ clean_out = None
    /\ ev = None

EvaluateAllModels ==
    /\ last = NoScriptRun
    /\ last' = evaluate_all_models_run(fs)
    /\ UNCHANGED <<fs, cfVars, cleanVars, evalVars>>

EvaluateModelAccuracyScript ==
    /\ last = NoScriptRun
    /\ last' = evaluate_model_accuracy_run(fs)
    /\ UNCHANGED <<fs, cfVars, cleanVars, evalVars>>

TrainMissingModelsScript ==
    /\ last = NoScriptRun
    /\ fs' = train_missing_models(fs)
    /\ last' = training_script_run("train_missing_models", fs, train_missing_models(fs))
    /\ UNCHANGED <<cfVars, cleanVars, evalVars>>

TrainAllModelsFastScript ==
    /\ last = NoScriptRun
    /\ fs' = train_all_models_fast(fs)
    /\ last' = training_script_run("train_all_models_fast", fs, train_all_models_fast(fs))
    /\ UNCHANGED <<cfVars, cleanVars, evalVars>>

CompleteTraining ==
    /\ last = NoScriptRun
    /\ \E features_df \in FeatureTables :
          /\ fs' = complete_training(fs, features_df)
          /\ last' = complete_training_run(fs, features_df)
    /\ UNCHANGED <<cfVars, cleanVars, evalVars>>

NextScripts ==
    \/ EvaluateAllModels
    \/ EvaluateModelAccuracyScript
    \/ TrainMissingModelsScript
    \/ TrainAllModelsFastScript
    \/ CompleteTraining

SpecScripts == InitScripts /\ [][NextScripts]_vars

ScriptsNeedingCsv ==
    {"evaluate_all_models", "evaluate_model_accuracy", "train_missing_models",
     "train_all_models_fast", "complete_training"}

\* the run stopped after a message: nothing fit, no artifact touched
stopped_after_message(run, store) ==
    /\ run.printed # ""
    /\ run.fitted = {}
    /\ store = run.start

\* C28: when ml_features.csv is absent, every script that needs it
\* (evaluate_all_models, evaluate_model_accuracy, train_missing_models,
\* train_all_models_fast, complete_training) stops after a clear message,
\* without fitting any model and without creating or modifying any artifact.
C28_StopsWithoutCsv ==
    (last.script \in ScriptsNeedingCsv /\ ~last.start.csv.exists)
        => stopped_after_message(last, fs)

\* C28 as the code has it: without ml_features.csv, evaluate_all_models,
\* evaluate_model_accuracy, train_missing_models and train_all_models_fast stop
\* after a clear message, without fitting any model and without creating or
\* modifying any artifact (complete_training instead announces and runs the
\* full pipeline when a model is missing).
C28_StopsWithoutCsvAmended ==
    (last.script \in ScriptsNeedingCsv \ {"complete_training"} /\ ~last.start.csv.exists)
        => stopped_after_message(last, fs)

\* a training script was started without the csv on a store that lacks models
C28_Witness ==
    /\ last.script = "train_all_models_fast"
    /\ ~last.start.csv.exists
    /\ missing_models(last.start) # {}
    /\ last.exit_code = 1

\* C29: a run of train_missing_models, train_all_models_fast or
\* complete_training trains only the models that are missing: it never
\* overwrites or retrains a model file that already existed when the run
\* started.
C29_OnlyMissingTrained ==
    last.script \in {"train_missing_models", "train_all_models_fast", "complete_training"}
        => /\ last.fitted \subseteq missing_models(last.start)
           /\ \A f \in existing_models(last.start) : fs.models[f] = last.start.models[f]

\* a run that found one model in place and fit another
C29_Witness ==
    /\ last.script \in {"train_missing_models", "train_all_models_fast", "complete_training"}
    /\ existing_models(last.start) # {}
    /\ last.fitted # {}

(***************************************************************************)
(* ml_predict.main as a process: the argument check, json.loads, the       *)
(* loading of model and feature names, the prediction and the printing of  *)
(* the result, with what reaches stdout and stderr and the exit status.    *)
(* JSON texts are read and written character by character for the part of  *)
(* the grammar the inputs use: flat objects and lists of numbers with at   *)
(* most one decimal, true/false/null and strings without escapes.          *)
(***************************************************************************)
\* a JSON scalar; numbers are held in tenths
JsonCell(kind, num, s) == [kind |-> kind, num |-> num, s |-> s]

NoItems == [k \in {} |-> JsonCell("null", 0, "")]

\* what json.loads returns (ok) or that it raised JSONDecodeError
JsonValue(ok, kind, scalar, items) ==
    [ok |-> ok, kind |-> kind, scalar |-> scalar, items |-> items]

JSONDecodeError == JsonValue(FALSE, "", JsonCell("null", 0, ""), NoItems)

IsQuoted(token) ==
    /\ Len(token) >= 2
    /\ SubSeq(token, 1, 1) = "\""
    /\ SubSeq(token, Len(token), Len(token)) = "\""
    /\ FindChar(SubSeq(token, 2, Len(token) - 1), "\"") = 0

Unquote(token) == SubSeq(token, 2, Len(token) - 1)

\* digits, or digits '.' digit
IsJsonNumber(token) ==
    \/ Len(token) > 0 /\ AllDigits(token)
    \/ /\ Len(token) >= 3
       /\ SubSeq(token, Len(token) - 1, Len(token) - 1) = "."
       /\ AllDigits(SubSeq(token, 1, Len(token) - 2))
       /\ IsDigit(SubSeq(token, Len(token), Len(token)))

json_number(token) ==
    IF AllDigits(token) THEN 10 * ParseNat(token, 0)
    ELSE 10 * ParseNat(SubSeq(token, 1, Len(token) - 2), 0)
         + DigitVal(SubSeq(token, Len(token), Len(token)))

IsJsonScalar(token) ==
    token \in {"true", "false", "null"} \/ IsJsonNumber(token) \/ IsQuoted(token)

json_scalar(token) ==
    CASE token = "true" -> JsonCell("bool", 1, "")
      [] token = "false" -> JsonCell("bool", 0, "")
      [] token = "null" -> JsonCell("null", 0, "")
      [] IsQuoted(token) -> JsonCell("str", 0, Unquote(token))
      [] OTHER -> JsonCell("number", json_number(token), "")

\* the members of an object or a list: the text between the brackets, cut at
\* the commas
json_members(inner) ==
    IF strip(inner) = "" THEN <<>> ELSE MapVals(Split(inner, ","), strip)

IsJsonPair(member) ==
    /\ Len(Split(member, ":")) = 2
    /\ IsQuoted(strip(Split(member, ":")[1]))
    /\ IsJsonScalar(strip(Split(member, ":")[2]))

pair_key(member) == Unquote(strip(Split(member, ":")[1]))
pair_value(member) == json_scalar(strip(Split(member, ":")[2]))

\* a repeated key keeps its last value
json_object(members) ==
    [k \in {pair_key(members[i]) : i \in 1..Len(members)} |->
        pair_value(members[CHOOSE i \in 1..Len(members) :
                              /\ pair_key(members[i]) = k
                              /\ \A j \in (i + 1)..Len(members) : pair_key(members[j]) # k])]

Enclosed(text, open, close) ==
    /\ Len(text) >= 2
    /\ SubSeq(text, 1, 1) = open
    /\ SubSeq(text, Len(text), Len(text)) = close

\* json.loads(text)
json_loads_stripped(text) ==
    IF Enclosed(text, "{", "}")
    THEN IF \A i \in 1..Len(json_members(Unquote(text))) :
                IsJsonPair(json_members(Unquote(text))[i])
         THEN JsonValue(TRUE, "dict", JsonCell("null", 0, ""),
                        json_object(json_members(Unquote(text))))
         ELSE JSONDecodeError
    ELSE IF Enclosed(text, "[", "]")
    THEN IF \A i \in 1..Len(json_members(Unquote(text))) :
                IsJsonScalar(json_members(Unquote(text))[i])
         THEN JsonValue(TRUE, "list", JsonCell("null", 0, ""), NoItems)
         ELSE JSONDecodeError
    ELSE IF IsJsonScalar(text)
    THEN JsonValue(TRUE, json_scalar(text).kind, json_scalar(text), NoItems)
    ELSE JSONDecodeError

json_loads(text) == json_loads_stripped(strip(text))

\* repr of a float held in tenths
float_repr(tenths) == ToString(tenths \div 10) \o "." \o ToString(tenths % 10)

\* json.dumps({'success': True, 'prediction': prediction})
json_dumps_result(prediction) ==
    "{\"success\": true, \"prediction\": " \o float_repr(prediction) \o "}"

\* json.dumps of a result whose prediction is None
json_dumps_null == "{\"success\": true, \"prediction\": null}"

\* load_model_and_features raises inside its try: a file cannot be opened
load_model_raises(store) ==
    ~store.models["random_forest_model.pkl"].exists \/ ~store.names.exists

\* a cell pandas and the estimator can take as a number
numeric_value(cell) ==
    \/ cell.kind \in {"number", "bool"}
    \/ cell.kind = "str" /\ Len(cell.s) > 0 /\ AllDigits(cell.s)

\* household_data.get(f, 0)
get_feature(household_data, f) ==
    IF f \in DOMAIN household_data.items THEN household_data.items[f]
    ELSE JsonCell("number", 0, "")

\* predict raises inside its try: household_data has no .get, the row does
\* not have the columns the model was fit on (the names are compared when
\* the installed scikit-learn checks them, their number always), or a value
\* is not a number
predict_raises(household_data, model, features, names_checked) ==
    \/ household_data.kind # "dict"
    \/ Len(features) # Len(model.fit_on)
    \/ names_checked /\ features # model.fit_on
    \/ \E i \in 1..Len(features) : ~numeric_value(get_feature(household_data, features[i]))

\* the values model.predict can return, in tenths
PredictionValues == {0, 5, 425}

\* sys.argv
ArgvChoices ==
    { <<"ml_predict.py">>,
      <<"ml_predict.py", "{}">>,
      <<"ml_predict.py", "{\"hv009\": 4}">>,
      <<"ml_predict.py", " {\"hv009\": 4.5, \"hv270\": 2} ">>,
      <<"ml_predict.py", "{\"hv009\": \"many\"}">>,
      <<"ml_predict.py", "{\"hv009\": 4">>,
      <<"ml_predict.py", "{hv009: 4}">>,
      <<"ml_predict.py", "hv009=4">>,
      <<"ml_predict.py", "[4, 5]">>,
      <<"ml_predict.py", "4">>,
      <<"ml_predict.py", "{\"hv009\": 4}", "{\"hv009\": 5}">> }

\* the stores ml_predict is started on
PredictStores ==
    { [EmptyStore(FALSE, FALSE) EXCEPT
          !.models = [f \in ModelFiles |->
                         IF f = "random_forest_model.pkl" THEN model ELSE NoModel],
          !.names = names] :
      model \in {NoModel, FittedModel(<<"hv009">>), FittedModel(<<"hv009", "hv270">>)},
      names \in {NoFile, File("hv009"), File("hv009\nhv270\n"), File("hv270\nhv009"),
                 File("hv009\n\nhv270"), File("")} }

\* a run of main: where it stands, what it holds and what it has written
MainRun(pc, sys_argv, names_checked, passed, household_data, features, prediction, stdout, stderr, exit_code) ==
    [ pc |-> pc, sys_argv |-> sys_argv, names_checked |-> names_checked,
      passed |-> passed, household_data |-> household_data, features |-> features,
      prediction |-> prediction, stdout |-> stdout, stderr |-> stderr,
      exit_code |-> exit_code ]

\* print(..., file=sys.stderr); sys.exit(1)
exit_with_error(run, message) ==
    [run EXCEPT !.pc = "exited", !.stderr = @ \o <<message>>, !.exit_code = 1]

\* predict's handler lets main go on with None
prediction_failed_returns_none(run) ==
    [run EXCEPT !.pc = "print", !.stderr = @ \o <<"Error making prediction">>,
                !.prediction = -1]

\* predict's except: the message goes to stderr and the process exits
prediction_failed(run) == exit_with_error(run, "Error making prediction")

InitPredict ==
    /\ dhs_data = None
    /\ faostat_data = None
    /\ knbs_data = None
    /\ runs = None
    /\ fs \in PredictStores
    /\ \E sys_argv \in ArgvChoices, names_checked \in BOOLEAN :
          last = MainRun("start", sys_argv, names_checked, {}, JSONDecodeError, <<>>, -1,
                         <<>>, <<>>, -1)
    /\ clean_in = None
    /\ clean_out = None
    /\ ev = None

\* if len(sys.argv) < 2
CheckUsage ==
    /\ last.pc = "start"
    /\ last' = IF Len(last.sys_argv) < 2
               THEN exit_with_error(last, "Usage: python ml_predict.py ...")
               ELSE [last EXCEPT !.pc = "parse", !.passed = @ \cup {"argument"}]
    /\ UNCHANGED <<fs, cfVars, cleanVars, evalVars>>

\* household_data = json.loads(sys.argv[1])
ParseHouseholdData ==
    /\ last.pc = "parse"
    /\ last' = IF ~json_loads(last.sys_argv[2]).ok
               THEN exit_with_error(last, "Error parsing JSON")
               ELSE [last EXCEPT !.pc = "load", !.passed = @ \cup {"parsed"},
                                 !.household_data = json_loads(last.sys_argv[2])]
    /\ UNCHANGED <<fs, cfVars, cleanVars, evalVars>>

\* model, features = load_model_and_features()
LoadModelAndFeaturesStage ==
    /\ last.pc = "load"
    /\ last' = IF load_model_raises(fs)
               THEN exit_with_error(last, "Error loading model")
               ELSE [last EXCEPT !.pc = "predict", !.passed = @ \cup {"loaded"},
                                 !.features = load_model_and_features(fs).features]
    /\ UNCHANGED <<fs, cfVars, cleanVars, evalVars>>

\* prediction = predict(household_data, model, features)
PredictStage ==
    /\ last.pc = "predict"
    /\ IF predict_raises(last.household_data, fs.models["random_forest_model.pkl"],
                         last.features, last.names_checked)
       THEN last' = prediction_failed(last)
       ELSE \E prediction \in PredictionValues :
               last' = [last EXCEPT !.pc = "print", !.passed = @ \cup {"predicted"},
                                    !.prediction = prediction]
    /\ UNCHANGED <<fs, cfVars, cleanVars, evalVars>>

\* print(json.dumps(result)); sys.exit(0)
PrintResult ==
    /\ last.pc = "print"
    /\ last' = [last EXCEPT !.pc = "exited",
                            !.stdout = @ \o << IF last.prediction < 0 THEN json_dumps_null
                                               ELSE json_dumps_result(last.prediction) >>,
                            !.exit_code = 0]
    /\ UNCHANGED <<fs, cfVars, cleanVars, evalVars>>

NextPredict ==
    \/ CheckUsage
    \/ ParseHouseholdData
    \/ LoadModelAndFeaturesStage
    \/ PredictStage
    \/ PrintResult

SpecPredict == InitPredict /\ [][NextPredict]_vars

\* stdout holds exactly one line, a JSON object with success true and a
\* numeric prediction
one_result_object(stdout) ==
    /\ Len(stdout) = 1
    /\ json_loads(stdout[1]).ok
    /\ json_loads(stdout[1]).kind = "dict"
    /\ DOMAIN json_loads(stdout[1]).items = {"success", "prediction"}
    /\ json_loads(stdout[1]).items["success"] = JsonCell("bool", 1, "")
    /\ json_loads(stdout[1]).items["prediction"].kind = "number"

\* the argument was present and parsed, model and names were loaded and the
\* prediction succeeded
all_steps_passed(run) ==
    run.passed = {"argument", "parsed", "loaded", "predicted"}

\* C30: ml_predict's main exits with status 0 and prints exactly one JSON
\* object with success true and a numeric prediction on stdout if and only
\* if the argument was present and parsed as JSON, the model and feature
\* names were loaded, and the prediction succeeded; in every other case it
\* exits with status 1 and prints nothing on stdout.
C30_ExitStatusAndStdout ==
    last.pc = "exited" =>
        /\ (last.exit_code = 0 /\ one_result_object(last.stdout)) <=> all_steps_passed(last)
        /\ ~all_steps_passed(last) => (last.exit_code = 1 /\ last.stdout = <<>>)
        /\ ("argument" \in last.passed) <=> (Len(last.sys_argv) >= 2)
        /\ all_steps_passed(last) =>
              /\ last.household_data.kind = "dict"
              /\ last.stdout = <<json_dumps_result(last.prediction)>>

\* a run that printed a prediction for a household given as a JSON object
C30_Witness ==
    /\ last.pc = "exited"
    /\ all_steps_passed(last)
    /\ last.exit_code = 0
    /\ "hv009" \in DOMAIN last.household_data.items
    /\ last.prediction = 425

====
